---- MODULE Spec2Model ----
(***************************************************************************)
(* GTFS static-feed ingestion of the transport_api application:            *)
(* gtfs_parser.GTFSParser (the feed reader) and the management command     *)
(* fetch_transport_data.Command (the run driver, the per-entity batch      *)
(* loaders and the live-vehicle fetch), over the tables declared in        *)
(* models.py, the spatial queries of views.StopViewSet on them, the       *)
(* serializers' validation, and the DELETE requests of the REST API.       *)
(*                                                                         *)
(* A feed file is a sequence of rows as csv.DictReader hands them out: a   *)
(* record of cells, where a cell is the text of the field, or None when    *)
(* the row is shorter than the header (DictReader's restval).  Every       *)
(* header carries the columns the parser reads, so row.get never falls     *)
(* back to its default.  Numbers are whole degrees / whole sequence        *)
(* numbers.                                                                *)
(***************************************************************************)
EXTENDS Integers, Sequences, FiniteSets, TLC

\* ------------------------------------------------------------------ bounds
\* Longest feed file, in rows.
MaxRows == 3
\* Stand-in for batch_size (5000 .. 100000 in the loaders), scaled to MaxRows.
BatchSize == 2
\* Number of consecutive runs of the command.
MaxRuns == 2
\* Most stops in the table the spatial queries run on.
MaxStops == 3

\* ------------------------------------------------------------ conversions
\* Python's None: the cell of a short row, a null column.
None == "<None>"

\* The numerals the feeds use, with the value float() gives them.
FloatLit == ("0" :> 0) @@ ("0.0" :> 0) @@ ("1" :> 1) @@ ("2" :> 2) @@ ("2.0" :> 2)

\* The numerals int() accepts among them (int("0.0") raises ValueError).
IntLit == ("0" :> 0) @@ ("1" :> 1) @@ ("2" :> 2) @@ ("5" :> 5) @@ ("-1" :> -1)

\* float(cell): TypeError on None, ValueError on text that is no number.
float(c) ==
  IF c = None THEN [tag |-> "TypeError", v |-> 0]
  ELSE IF c \in DOMAIN FloatLit THEN [tag |-> "ok", v |-> FloatLit[c]]
  ELSE [tag |-> "ValueError", v |-> 0]

\* int(cell): TypeError on None, ValueError on text that is no integer.
int(c) ==
  IF c = None THEN [tag |-> "TypeError", v |-> 0]
  ELSE IF c \in DOMAIN IntLit THEN [tag |-> "ok", v |-> IntLit[c]]
  ELSE [tag |-> "ValueError", v |-> 0]

\* datetime.strptime(cell, '%Y%m%d').date(): the date, or "bad" when it raises
\* (ValueError on other text, TypeError on None).
Today == "today"
strptime_date(c) == IF c \in {"20240101", "20241231"} THEN c ELSE "bad"

\* ------------------------------------------------------- parser outcomes
NoRec == [none |-> TRUE]
Yield(rec) == [tag |-> "yield", rec |-> rec]
SkipRow == [tag |-> "skip", rec |-> NoRec]
RaiseOut(exc) == [tag |-> exc, rec |-> NoRec]

\* The except clause of the numeric parsers: (ValueError, KeyError).
CaughtByParser(exc) == exc \in {"ValueError", "KeyError"}

\* One iteration of parse_stops' row loop.
parse_stops(row) ==
  LET lat == float(row.stop_lat)
      lon == float(row.stop_lon)
  IN  IF lat.tag # "ok" THEN (IF CaughtByParser(lat.tag) THEN SkipRow ELSE RaiseOut(lat.tag))
      ELSE IF lon.tag # "ok" THEN (IF CaughtByParser(lon.tag) THEN SkipRow ELSE RaiseOut(lon.tag))
      ELSE IF lat.v = 0 \/ lon.v = 0 THEN SkipRow
      ELSE Yield([stop_id |-> row.stop_id, stop_name |-> row.stop_name,
                  stop_lat |-> lat.v, stop_lon |-> lon.v])

\* One iteration of parse_routes' row loop: nothing is converted.
parse_routes(row) == Yield([route_id |-> row.route_id, route_type |-> row.route_type])

\* One iteration of parse_trips' row loop: nothing is converted.
parse_trips(row) ==
  Yield([route_id |-> row.route_id, trip_id |-> row.trip_id,
         direction_id |-> row.direction_id])

\* One iteration of parse_stop_times' row loop.
parse_stop_times(row) ==
  LET s == int(row.stop_sequence)
  IN  IF s.tag # "ok" THEN (IF CaughtByParser(s.tag) THEN SkipRow ELSE RaiseOut(s.tag))
      ELSE Yield([trip_id |-> row.trip_id, stop_id |-> row.stop_id,
                  stop_sequence |-> s.v, pickup_type |-> row.pickup_type])

\* One iteration of parse_agencies' row loop.
parse_agencies(row) == Yield([agency_id |-> row.agency_id, agency_name |-> row.agency_name])

\* One iteration of parse_calendars' row loop: an unparseable date becomes today.
parse_calendars(row) ==
  LET d == strptime_date(row.start_date)
  IN  Yield([service_id |-> row.service_id,
             start_date |-> IF d = "bad" THEN Today ELSE d])

\* One iteration of parse_shapes' row loop (lat, then lon, then sequence).
parse_shapes(row) ==
  LET lat == float(row.shape_pt_lat)
      lon == float(row.shape_pt_lon)
      s   == int(row.shape_pt_sequence)
      bad == IF lat.tag # "ok" THEN lat.tag ELSE IF lon.tag # "ok" THEN lon.tag ELSE s.tag
  IN  IF bad # "ok" THEN (IF CaughtByParser(bad) THEN SkipRow ELSE RaiseOut(bad))
      ELSE Yield([shape_id |-> row.shape_id, shape_pt_lat |-> lat.v,
                  shape_pt_lon |-> lon.v, shape_pt_sequence |-> s.v])

\* ------------------------------------------------------------- the feeds
Entities == {"agency", "calendar", "stops", "routes", "trips", "stop_times", "shapes"}

\* Variant: parse_shapes, parse_agencies and parse_calendars raise like the others.
RequiredFiles_every_file ==
  {"stops", "routes", "trips", "stop_times", "agency", "calendar", "shapes"}

\* The files whose parser raises FileNotFoundError when the file is absent;
\* the parsers of the other three return without yielding.
RequiredFiles == {"stops", "routes", "trips", "stop_times"}

\* Rows of agency.txt (agency_id, agency_name); the last one is a short row.
AgencyRows ==
  { [agency_id |-> "A1", agency_name |-> "n1"],
    [agency_id |-> "A1", agency_name |-> "n2"],
    [agency_id |-> "A2", agency_name |-> "n1"],
    [agency_id |-> "A2", agency_name |-> None] }

\* Rows of calendar.txt (service_id, start_date).
CalendarRows ==
  { [service_id |-> "C1", start_date |-> "20240101"],
    [service_id |-> "C1", start_date |-> "20241231"],
    [service_id |-> "C2", start_date |-> "x"],
    [service_id |-> "C2", start_date |-> None] }

\* Rows of stops.txt (stop_id, stop_name, stop_lat, stop_lon).
StopRows ==
  { [stop_id |-> "S1", stop_name |-> "a", stop_lat |-> "1",   stop_lon |-> "2"],
    [stop_id |-> "S1", stop_name |-> "b", stop_lat |-> "2.0", stop_lon |-> "1"],
    [stop_id |-> "S2", stop_name |-> "a", stop_lat |-> "0",   stop_lon |-> "1"],
    [stop_id |-> "S2", stop_name |-> "a", stop_lat |-> "2",   stop_lon |-> "0.0"],
    [stop_id |-> "S2", stop_name |-> "a", stop_lat |-> "x",   stop_lon |-> "1"],
    [stop_id |-> "S2", stop_name |-> "a", stop_lat |-> "1",   stop_lon |-> ""],
    [stop_id |-> "S2", stop_name |-> "a", stop_lat |-> "1",   stop_lon |-> None] }

\* Rows of routes.txt (route_id, route_type); the last one is a short row.
RouteRows ==
  { [route_id |-> "R1", route_type |-> "3"],
    [route_id |-> "R1", route_type |-> "2"],
    [route_id |-> "R2", route_type |-> "9"],
    [route_id |-> "R2", route_type |-> None] }

\* Rows of trips.txt (route_id, trip_id, direction_id).
TripRows ==
  { [route_id |-> "R1", trip_id |-> "T1", direction_id |-> "0"],
    [route_id |-> "R2", trip_id |-> "T1", direction_id |-> "1"],
    [route_id |-> "R1", trip_id |-> "T2", direction_id |-> "1"],
    [route_id |-> "R1", trip_id |-> "T2", direction_id |-> "x"],
    [route_id |-> "R1", trip_id |-> "T1", direction_id |-> "5"],
    [route_id |-> "R1", trip_id |-> "T2", direction_id |-> None] }

\* Rows of stop_times.txt (trip_id, stop_id, stop_sequence, pickup_type).
StopTimeRows ==
  { [trip_id |-> "T1", stop_id |-> "S1", stop_sequence |-> "1", pickup_type |-> "0"],
    [trip_id |-> "T1", stop_id |-> "S1", stop_sequence |-> "2", pickup_type |-> "5"],
    [trip_id |-> "T2", stop_id |-> "S1", stop_sequence |-> "1", pickup_type |-> "0"],
    [trip_id |-> "T1", stop_id |-> "S2", stop_sequence |-> "1", pickup_type |-> "1"],
    [trip_id |-> "T1", stop_id |-> "S1", stop_sequence |-> "x", pickup_type |-> "0"],
    [trip_id |-> "T1", stop_id |-> "S1", stop_sequence |-> "2", pickup_type |-> "x"],
    [trip_id |-> "T1", stop_id |-> "S1", stop_sequence |-> None, pickup_type |-> None] }

\* Rows of shapes.txt (shape_id, shape_pt_lat, shape_pt_lon, shape_pt_sequence).
ShapeRows ==
  { [shape_id |-> "H1", shape_pt_lat |-> "1", shape_pt_lon |-> "2", shape_pt_sequence |-> "1"],
    [shape_id |-> "H1", shape_pt_lat |-> "2", shape_pt_lon |-> "1", shape_pt_sequence |-> "2"],
    [shape_id |-> "H1", shape_pt_lat |-> "2", shape_pt_lon |-> "2", shape_pt_sequence |-> "1"],
    [shape_id |-> "H2", shape_pt_lat |-> "1", shape_pt_lon |-> "1", shape_pt_sequence |-> "5"],
    [shape_id |-> "H2", shape_pt_lat |-> "x", shape_pt_lon |-> "1", shape_pt_sequence |-> "1"],
    [shape_id |-> "H2", shape_pt_lat |-> "1", shape_pt_lon |-> "1", shape_pt_sequence |-> "0.0"],
    [shape_id |-> "H1", shape_pt_lat |-> "1", shape_pt_lon |-> None, shape_pt_sequence |-> None] }

RowsOf(e) ==
  CASE e = "agency"     -> AgencyRows
    [] e = "calendar"   -> CalendarRows
    [] e = "stops"      -> StopRows
    [] e = "routes"     -> RouteRows
    [] e = "trips"      -> TripRows
    [] e = "stop_times" -> StopTimeRows
    [] e = "shapes"     -> ShapeRows

\* A file: absent, or its rows in file order.
AbsentFile == [exists |-> FALSE, rows |-> <<>>]
File(rows) == [exists |-> TRUE, rows |-> rows]
FilesOf(e) ==
  {AbsentFile} \cup {File(rs) : rs \in UNION {[1..k -> RowsOf(e)] : k \in 0..MaxRows}}

\* A feed with one valid record per file and one two-point shape.
BaseFeed ==
  [ folder     |-> TRUE,
    agency     |-> File(<<[agency_id |-> "A1", agency_name |-> "n1"]>>),
    calendar   |-> File(<<[service_id |-> "C1", start_date |-> "20240101"]>>),
    stops      |-> File(<<[stop_id |-> "S1", stop_name |-> "a", stop_lat |-> "1", stop_lon |-> "2"]>>),
    routes     |-> File(<<[route_id |-> "R1", route_type |-> "3"]>>),
    trips      |-> File(<<[route_id |-> "R1", trip_id |-> "T1", direction_id |-> "0"]>>),
    stop_times |-> File(<<[trip_id |-> "T1", stop_id |-> "S1", stop_sequence |-> "1", pickup_type |-> "0"]>>),
    shapes     |-> File(<<[shape_id |-> "H1", shape_pt_lat |-> "1", shape_pt_lon |-> "2", shape_pt_sequence |-> "1"],
                          [shape_id |-> "H1", shape_pt_lat |-> "2", shape_pt_lon |-> "1", shape_pt_sequence |-> "2"]>>) ]

\* A later edition of the feed: the records of BaseFeed with other field
\* values, and records with new ids.
RevisedFeed ==
  [ folder     |-> TRUE,
    agency     |-> File(<<[agency_id |-> "A1", agency_name |-> "n2"],
                          [agency_id |-> "A2", agency_name |-> "n1"]>>),
    calendar   |-> File(<<[service_id |-> "C1", start_date |-> "20241231"],
                          [service_id |-> "C2", start_date |-> "x"]>>),
    stops      |-> File(<<[stop_id |-> "S1", stop_name |-> "b", stop_lat |-> "2.0", stop_lon |-> "1"],
                          [stop_id |-> "S2", stop_name |-> "a", stop_lat |-> "2", stop_lon |-> "2"]>>),
    routes     |-> File(<<[route_id |-> "R1", route_type |-> "2"],
                          [route_id |-> "R2", route_type |-> "3"]>>),
    trips      |-> File(<<[route_id |-> "R2", trip_id |-> "T1", direction_id |-> "1"],
                          [route_id |-> "R1", trip_id |-> "T2", direction_id |-> "0"]>>),
    stop_times |-> File(<<[trip_id |-> "T1", stop_id |-> "S2", stop_sequence |-> "1", pickup_type |-> "1"],
                          [trip_id |-> "T2", stop_id |-> "S1", stop_sequence |-> "1", pickup_type |-> "0"]>>),
    shapes     |-> File(<<[shape_id |-> "H1", shape_pt_lat |-> "2", shape_pt_lon |-> "2", shape_pt_sequence |-> "1"],
                          [shape_id |-> "H1", shape_pt_lat |-> "1", shape_pt_lon |-> "1", shape_pt_sequence |-> "2"],
                          [shape_id |-> "H2", shape_pt_lat |-> "1", shape_pt_lon |-> "2", shape_pt_sequence |-> "1"],
                          [shape_id |-> "H2", shape_pt_lat |-> "2", shape_pt_lon |-> "1", shape_pt_sequence |-> "2"]>>) ]

\* The feeds of the first run: BaseFeed with any one file replaced by any
\* file of at most MaxRows rows (or removed), and the case of no feed folder.
Feeds ==
  UNION {{[BaseFeed EXCEPT ![e] = f] : f \in FilesOf(e)} : e \in Entities}
    \cup {[BaseFeed EXCEPT !.folder = FALSE]}

\* --------------------------------------------------------------- the store
\* A table is the sequence of its rows in insertion order (the position
\* stands for the auto-increment primary key; ingestion never deletes).
\* A foreign key holds the unique external id of the row it references.
EmptyStore == [e \in Entities |-> <<>>]

\* Variant: Shape unique on (shape_id, geometry) instead of (shape_id, sequence).
UniqueKey_shape_geometry(e, obj) ==
  CASE e = "agency"     -> <<obj.agency_id>>
    [] e = "calendar"   -> <<obj.service_id>>
    [] e = "stops"      -> <<obj.stop_id>>
    [] e = "routes"     -> <<obj.route_id>>
    [] e = "trips"      -> <<obj.trip_id>>
    [] e = "stop_times" -> <<obj.trip, obj.stop_sequence>>
    [] e = "shapes"     -> <<obj.shape_id, obj.geometry>>

\* The value of the unique constraint of each model: agency_id, service_id,
\* stop_id, route_id, trip_id, (trip, stop_sequence), (shape_id, sequence).
UniqueKey(e, obj) ==
  CASE e = "agency"     -> <<obj.agency_id>>
    [] e = "calendar"   -> <<obj.service_id>>
    [] e = "stops"      -> <<obj.stop_id>>
    [] e = "routes"     -> <<obj.route_id>>
    [] e = "trips"      -> <<obj.trip_id>>
    [] e = "stop_times" -> <<obj.trip, obj.stop_sequence>>
    [] e = "shapes"     -> <<obj.shape_id, obj.sequence>>

\* Whether a row breaks a NOT NULL column (no field of these models is
\* null=True among the columns kept here).
HasNull(e, obj) ==
  CASE e = "agency"     -> None \in {obj.agency_id, obj.agency_name}
    [] e = "calendar"   -> None \in {obj.service_id}
    [] e = "stops"      -> None \in {obj.stop_id, obj.stop_name}
    [] e = "routes"     -> None \in {obj.route_id, obj.route_type}
    [] e = "trips"      -> None \in {obj.trip_id, obj.route}
    [] e = "stop_times" -> None \in {obj.trip, obj.stop}
    [] e = "shapes"     -> None \in {obj.shape_id}

Keys(e, table) == {UniqueKey(e, table[i]) : i \in DOMAIN table}

\* Variant: update_or_create semantics, a conflicting object overwrites the row.
RECURSIVE InsertOrUpdate(_, _, _)
InsertOrUpdate(e, table, objs) ==
  IF objs = <<>> THEN table
  ELSE InsertOrUpdate(e,
         IF UniqueKey(e, Head(objs)) \in Keys(e, table)
         THEN [i \in DOMAIN table |->
                 IF UniqueKey(e, table[i]) = UniqueKey(e, Head(objs))
                 THEN Head(objs) ELSE table[i]]
         ELSE Append(table, Head(objs)),
         Tail(objs))

\* INSERT ... ON CONFLICT DO NOTHING of the objects, in order.
RECURSIVE InsertIgnore(_, _, _)
InsertIgnore(e, table, objs) ==
  IF objs = <<>> THEN table
  ELSE InsertIgnore(e,
         IF UniqueKey(e, Head(objs)) \in Keys(e, table) THEN table
         ELSE Append(table, Head(objs)),
         Tail(objs))

\* Variant: a table without its unique constraint, every object is stored.
bulk_create_no_unique(e, table, objs) ==
  IF \E i \in DOMAIN objs : HasNull(e, objs[i])
  THEN [ok |-> FALSE, table |-> table]
  ELSE [ok |-> TRUE, table |-> table \o objs]

\* Model.objects.bulk_create(objs, ignore_conflicts=True): one atomic
\* statement; a uniqueness conflict skips the object, a NOT NULL violation
\* raises IntegrityError and nothing of the batch is stored.
bulk_create(e, table, objs) ==
  IF \E i \in DOMAIN objs : HasNull(e, objs[i])
  THEN [ok |-> FALSE, table |-> table]
  ELSE [ok |-> TRUE, table |-> InsertIgnore(e, table, objs)]

\* The CASCADE foreign keys of a row of e: <<referenced table, referenced id>>
\* (Trip.route, StopTime.trip, StopTime.stop).
ForeignKeys(e, obj) ==
  CASE e = "trips"      -> {<<"routes", obj.route>>}
    [] e = "stop_times" -> {<<"trips", obj.trip>>, <<"stops", obj.stop>>}
    [] OTHER            -> {}

\* The ids of the rows of a referenced table.
IdsOf(e, table) == {UniqueKey(e, table[i])[1] : i \in DOMAIN table}

\* A row of e in the store st references a row that st does not hold.
Dangling(e, obj, st) ==
  \E fk \in ForeignKeys(e, obj) : fk[2] \notin IdsOf(fk[1], st[fk[1]])

\* Variant: foreign keys without a database constraint.
bulk_create_in_store_unconstrained(e, st, objs) == bulk_create(e, st[e], objs)

\* bulk_create on the database st.  The foreign keys of the models are
\* database constraints checked when the statement's transaction commits:
\* if a row it inserted references a row that is no longer stored, the
\* commit raises IntegrityError and nothing of the batch is stored (an
\* object skipped on a uniqueness conflict inserts no row).
bulk_create_in_store(e, st, objs) ==
  LET r == bulk_create(e, st[e], objs)
      inserted == {r.table[i] : i \in (Len(st[e]) + 1)..Len(r.table)}
  IN  IF r.ok /\ \E obj \in inserted : Dangling(e, obj, st)
      THEN [ok |-> FALSE, table |-> st[e]]
      ELSE r

\* ------------------------------------------------- the per-record bodies
NoObj == [none |-> TRUE]
ToAppend(obj) == [tag |-> "append", obj |-> obj]
Skipped == [tag |-> "skipped", obj |-> NoObj]
Dropped == [tag |-> "dropped", obj |-> NoObj]

\* Loop body of fetch_agencies_from_gtfs up to the append.
fetch_agencies_record(rec, sn) ==
  ToAppend([agency_id |-> rec.agency_id, agency_name |-> rec.agency_name])

\* Loop body of fetch_calendars_from_gtfs up to the append.
fetch_calendars_record(rec, sn) ==
  ToAppend([service_id |-> rec.service_id, start_date |-> rec.start_date])

\* Variant: Point(lat, lon), the arguments in the feed's column order.
fetch_stops_record_lat_first(rec, sn) ==
  ToAppend([stop_id |-> rec.stop_id, stop_name |-> rec.stop_name,
            location |-> <<rec.stop_lat, rec.stop_lon>>])

\* Loop body of fetch_stops_from_gtfs (the second, effective definition) up
\* to the append: float() of a float is that float, Point(lon, lat).
fetch_stops_record(rec, sn) ==
  ToAppend([stop_id |-> rec.stop_id, stop_name |-> rec.stop_name,
            location |-> <<rec.stop_lon, rec.stop_lat>>])

\* Loop body of fetch_routes_from_gtfs up to the append.
fetch_routes_record(rec, sn) ==
  ToAppend([route_id |-> rec.route_id, route_type |-> rec.route_type])

\* Variant: an unknown route_id gives a Trip with a null route, not a skip.
fetch_trips_record_null_route(rec, sn) ==
  LET d == int(rec.direction_id)
  IN  IF d.tag # "ok" THEN Dropped
      ELSE ToAppend([trip_id |-> rec.trip_id,
                     route |-> IF rec.route_id \in sn.routes THEN rec.route_id ELSE None,
                     direction_id |-> d.v])

\* Variant: a direction_id that is no integer is stored as 0.
fetch_trips_record_default_direction(rec, sn) ==
  IF rec.route_id \notin sn.routes THEN Skipped
  ELSE LET d == int(rec.direction_id)
       IN  ToAppend([trip_id |-> rec.trip_id, route |-> rec.route_id,
                     direction_id |-> IF d.tag = "ok" THEN d.v ELSE 0])

\* Loop body of fetch_trips_from_gtfs up to the append.
fetch_trips_record(rec, sn) ==
  IF rec.route_id \notin sn.routes THEN Skipped
  ELSE LET d == int(rec.direction_id)
       IN  IF d.tag # "ok" THEN Dropped
           ELSE ToAppend([trip_id |-> rec.trip_id, route |-> rec.route_id,
                          direction_id |-> d.v])

\* Variant: skips only when both the trip and the stop are unknown.
fetch_stop_times_record_both(rec, sn) ==
  IF rec.trip_id \notin sn.trips /\ rec.stop_id \notin sn.stops THEN Skipped
  ELSE LET p == int(rec.pickup_type)
       IN  IF p.tag # "ok" THEN Dropped
           ELSE ToAppend([trip |-> rec.trip_id, stop |-> rec.stop_id,
                          stop_sequence |-> rec.stop_sequence,
                          pickup_type |-> p.v])

\* Loop body of fetch_stop_times_from_gtfs up to the append.
fetch_stop_times_record(rec, sn) ==
  IF rec.trip_id \notin sn.trips \/ rec.stop_id \notin sn.stops THEN Skipped
  ELSE LET p == int(rec.pickup_type)
       IN  IF p.tag # "ok" THEN Dropped
           ELSE ToAppend([trip |-> rec.trip_id, stop |-> rec.stop_id,
                          stop_sequence |-> rec.stop_sequence,
                          pickup_type |-> p.v])

parse_row(e, row) ==
  CASE e = "agency"     -> parse_agencies(row)
    [] e = "calendar"   -> parse_calendars(row)
    [] e = "stops"      -> parse_stops(row)
    [] e = "routes"     -> parse_routes(row)
    [] e = "trips"      -> parse_trips(row)
    [] e = "stop_times" -> parse_stop_times(row)
    [] e = "shapes"     -> parse_shapes(row)

record_body(e, rec, sn) ==
  CASE e = "agency"     -> fetch_agencies_record(rec, sn)
    [] e = "calendar"   -> fetch_calendars_record(rec, sn)
    [] e = "stops"      -> fetch_stops_record(rec, sn)
    [] e = "routes"     -> fetch_routes_record(rec, sn)
    [] e = "trips"      -> fetch_trips_record(rec, sn)
    [] e = "stop_times" -> fetch_stop_times_record(rec, sn)

\* Variant: the loaders let FileNotFoundError through.
LoaderCatches_not_missing_file(exc) == exc # "FileNotFoundError"

\* Variant: the loaders let a failed flush through.
LoaderCatches_not_flush(exc) == exc # "IntegrityError"

\* The outer "except Exception" of every loader.
LoaderCatches(exc) == TRUE

\* sorted(points_dict.keys())
RECURSIVE sorted(_)
sorted(S) ==
  IF S = {} THEN <<>>
  ELSE LET m == CHOOSE x \in S : \A y \in S : x <= y
       IN  <<m>> \o sorted(S \ {m})

\* ------------------------------------------------------------ the command
\* The --stops / --routes / --vehicles flags of one invocation.
NoFlags == [stops |-> FALSE, routes |-> FALSE, vehicles |-> FALSE]

\* Variant: --vehicles does not count as a subset flag.
load_all_ignores_vehicles(o) == ~o.stops /\ ~o.routes

load_all(o) == ~o.stops /\ ~o.vehicles /\ ~o.routes

\* Variant: trips loaded before routes.
Stages_trips_first(o) ==
  IF load_all(o)
  THEN <<"agency", "calendar", "stops", "trips", "routes", "stop_times", "shapes">>
  ELSE (IF o.stops THEN <<"stops">> ELSE <<>>)
         \o (IF o.routes THEN <<"routes">> ELSE <<>>)
         \o (IF o.vehicles THEN <<"vehicles">> ELSE <<>>)

\* The loaders handle() calls, in call order.
Stages(o) ==
  IF load_all(o)
  THEN <<"agency", "calendar", "stops", "routes", "trips", "stop_times", "shapes">>
  ELSE (IF o.stops THEN <<"stops">> ELSE <<>>)
         \o (IF o.routes THEN <<"routes">> ELSE <<>>)
         \o (IF o.vehicles THEN <<"vehicles">> ELSE <<>>)

\* "data = None" of fetch_vehicles, as a decoded body of no kind.
NoData == [kind |-> "None", body |-> <<>>]

VARIABLES
  feed, feed2,    \* the feed folder at the first run, and at the later runs
  opts,           \* the flags of the invocations
  run,            \* number of the current invocation
  pc,             \* idle | begin | rows | build | return | exit
  si,             \* position in Stages(opts) of the loader being run
  idx,            \* rows the loader's parser has consumed
  bi,             \* items of shapes_dict the second loop has visited
  buf,            \* the loader's <entity>_to_create list
  created_count, skipped,
  snap,           \* route_ids / trip_ids / stop_ids pre-cached by the loader
  shapes_dict,    \* fetch_shapes_from_gtfs: <<[shape_id, points]>> in insertion order
  store,          \* the database
  out,            \* self.stdout of the current invocation
  prev_out,       \* self.stdout of the invocation before it
  before,         \* the database when the current invocation started
  yielded,        \* records the parser yielded to the current loader
  built,          \* Shape objects the current loader constructed
  accepted,       \* objects the current loader appended to its list
  submitted,      \* the bulk_create calls of the current loader: [objs, ok]
  api_key,        \* --api-key, or TRANSPORT_API_KEY of the environment, or None
  called,         \* the loaders handle has called in the current invocation
  ei,             \* fetch_vehicles: endpoints the loop has tried
  requested,      \* fetch_vehicles: the requests issued, <<[url, outcome]>>
  data,           \* fetch_vehicles: the decoded response, or None
  vehicles,       \* the Vehicle table
  request,        \* the query parameters of the last API request
  response        \* the Response the view returned for it

vars == <<feed, feed2, opts, run, pc, si, idx, bi, buf, created_count, skipped,
          snap, shapes_dict, store, out, prev_out, before, yielded, built,
          accepted, submitted, api_key, called, ei, requested, data, vehicles,
          request, response>>

\* The API request being served.
query_vars == <<request, response>>

\* No request yet.
NoRequest ==
  [view |-> "none", lat |-> None, lon |-> None, k |-> None, distance_km |-> None,
   min_lat |-> None, max_lat |-> None, min_lon |-> None, max_lon |-> None,
   data |-> <<>>]
NoResponse ==
  [status |-> 0, error |-> "", count |-> 0, center |-> <<>>, k |-> 0,
   bounds |-> <<>>, radius_km |-> 0, results |-> <<>>]

\* The state of the live-vehicle path.
live_vars == <<api_key, called, ei, requested, data, vehicles>>

stage ==
  IF pc \in {"begin", "rows", "build", "request", "entities"}
  THEN Stages(opts)[si] ELSE "none"
CurFeed == IF run <= 1 THEN feed ELSE feed2
CurFile == CurFeed[stage]
EmptySnap == [routes |-> {}, trips |-> {}, stops |-> {}]

Msg(s, k, n) == [stage |-> s, kind |-> k, n |-> n]

Init ==
  /\ feed \in Feeds
  /\ feed2 \in {feed, RevisedFeed}
  /\ opts \in {[NoFlags EXCEPT !.stops = a, !.routes = b] : a, b \in BOOLEAN}
  /\ run = 0 /\ pc = "idle" /\ si = 0 /\ idx = 0 /\ bi = 0
  /\ buf = <<>> /\ created_count = 0 /\ skipped = 0
  /\ snap = EmptySnap /\ shapes_dict = <<>>
  /\ store = EmptyStore /\ before = EmptyStore
  /\ out = <<>> /\ prev_out = <<>> /\ yielded = <<>> /\ built = <<>>
  /\ accepted = <<>> /\ submitted = <<>>
  /\ api_key = None /\ called = <<>> /\ ei = 0 /\ requested = <<>>
  /\ data = NoData /\ vehicles = <<>>
  /\ request = NoRequest /\ response = NoResponse

\* Command.handle up to the first loader call.
handle ==
  /\ UNCHANGED query_vars
  /\ pc \in {"idle", "exit"} /\ run < MaxRuns
  /\ run' = run + 1
  /\ before' = store /\ prev_out' = out
  /\ IF (IF run = 0 THEN feed ELSE feed2).folder
     THEN /\ out' = <<Msg("handle", "started", 0)>>
          /\ pc' = "begin" /\ si' = 1
     ELSE /\ out' = <<Msg("handle", "started", 0), Msg("handle", "ERROR", 0)>>
          /\ pc' = "exit" /\ si' = 0
  /\ idx' = 0 /\ bi' = 0 /\ buf' = <<>> /\ created_count' = 0 /\ skipped' = 0
  /\ snap' = EmptySnap /\ shapes_dict' = <<>> /\ yielded' = <<>> /\ built' = <<>>
  /\ accepted' = <<>> /\ submitted' = <<>>
  /\ called' = <<>> /\ ei' = 0 /\ requested' = <<>> /\ data' = NoData
  /\ UNCHANGED <<feed, feed2, opts, store, api_key, vehicles>>

\* Variant: the ids are cached from the rows stored when the invocation
\* started, before the earlier loaders of this run stored theirs.
pre_cache_at_run_start(e, st) ==
  CASE e = "trips" ->
         [EmptySnap EXCEPT !.routes =
            {before.routes[i].route_id : i \in DOMAIN before.routes}]
    [] e = "stop_times" ->
         [EmptySnap EXCEPT
            !.trips = {before.trips[i].trip_id : i \in DOMAIN before.trips},
            !.stops = {before.stops[i].stop_id : i \in DOMAIN before.stops}]
    [] OTHER -> EmptySnap

\* route_map of fetch_trips_from_gtfs, trip_map and stop_map of
\* fetch_stop_times_from_gtfs: the ids of the rows of the store st.
pre_cache(e, st) ==
  CASE e = "trips" ->
         [EmptySnap EXCEPT !.routes =
            {st.routes[i].route_id : i \in DOMAIN st.routes}]
    [] e = "stop_times" ->
         [EmptySnap EXCEPT
            !.trips = {st.trips[i].trip_id : i \in DOMAIN st.trips},
            !.stops = {st.stops[i].stop_id : i \in DOMAIN st.stops}]
    [] OTHER -> EmptySnap

\* Entry of a fetch_<entity>_from_gtfs: the counters, the empty list, and for
\* trips and stop_times the pre-cached ids of the rows stored so far.
loader_begin ==
  /\ UNCHANGED query_vars
  /\ pc = "begin" /\ stage # "vehicles"
  /\ called' = Append(called, stage)
  /\ UNCHANGED <<api_key, ei, requested, data, vehicles>>
  /\ pc' = "rows" /\ idx' = 0 /\ bi' = 0 /\ buf' = <<>>
  /\ created_count' = 0 /\ skipped' = 0
  /\ shapes_dict' = <<>> /\ yielded' = <<>> /\ built' = <<>>
  /\ accepted' = <<>> /\ submitted' = <<>>
  /\ snap' = pre_cache(stage, store)
  /\ UNCHANGED <<feed, feed2, opts, run, si, store, out, prev_out, before>>

\* The loader returns (ok = TRUE), or lets the exception through to handle's
\* own except clause, which writes the error and returns.
Leave(ok, msgs, st) ==
  /\ store' = st
  /\ buf' = <<>>
  /\ IF ok
     THEN /\ out' = out \o msgs
          /\ IF si < Len(Stages(opts))
             THEN pc' = "begin" /\ si' = si + 1
             ELSE pc' = "return" /\ si' = si
     ELSE /\ out' = out \o <<Msg("handle", "ERROR", 0)>>
          /\ pc' = "exit" /\ si' = si

\* An exception reaches the loader's outer try.
Raised(exc) ==
  IF LoaderCatches(exc)
  THEN Leave(TRUE, <<Msg(stage, "ERROR", 0)>>, store)
  ELSE Leave(FALSE, <<>>, store)

\* The first next() on the parser of a required file that is absent.
file_not_found ==
  /\ UNCHANGED query_vars
  /\ UNCHANGED live_vars
  /\ pc = "rows" /\ idx = 0
  /\ ~CurFile.exists /\ stage \in RequiredFiles
  /\ Raised("FileNotFoundError")
  /\ UNCHANGED <<feed, feed2, opts, run, idx, bi, created_count, skipped, snap,
                 shapes_dict, prev_out, before, yielded, built, accepted, submitted>>

\* <entity>_to_create.append(obj) and the "if len(...) >= batch_size" flush
\* that follows it inside the per-record try.
AppendAndFlush(obj) ==
  LET b2 == Append(buf, obj)
      r  == bulk_create_in_store(stage, store, b2)
  IN  /\ accepted' = Append(accepted, obj)
      /\ IF Len(b2) >= BatchSize
         THEN /\ submitted' = Append(submitted, [objs |-> b2, ok |-> r.ok])
              /\ IF r.ok
                 THEN /\ store' = [store EXCEPT ![stage] = r.table]
                      /\ created_count' = created_count + Len(b2)
                      /\ buf' = <<>>
                      /\ out' = Append(out, Msg(stage, "processed", created_count + Len(b2)))
                 ELSE /\ buf' = b2
                      /\ out' = Append(out, Msg(stage, "WARNING", 0))
                      /\ UNCHANGED <<store, created_count>>
         ELSE /\ buf' = b2
              /\ UNCHANGED <<store, created_count, out, submitted>>

\* One pass of a loader's "for ... in parser.parse_...()" loop.
read_row ==
  /\ UNCHANGED query_vars
  /\ UNCHANGED live_vars
  /\ pc = "rows" /\ CurFile.exists /\ idx < Len(CurFile.rows)
  /\ LET p == parse_row(stage, CurFile.rows[idx + 1])
     IN  CASE p.tag = "skip" ->
                /\ idx' = idx + 1
                /\ UNCHANGED <<pc, si, buf, created_count, skipped, shapes_dict,
                               store, out, yielded, accepted, submitted>>
           [] p.tag = "yield" /\ stage = "shapes" ->
                /\ idx' = idx + 1
                /\ yielded' = Append(yielded, p.rec)
                /\ LET at == {i \in DOMAIN shapes_dict :
                                shapes_dict[i].shape_id = p.rec.shape_id}
                       pt == p.rec.shape_pt_sequence :>
                               <<p.rec.shape_pt_lon, p.rec.shape_pt_lat>>
                   IN  shapes_dict' =
                         IF at = {}
                         THEN Append(shapes_dict,
                                [shape_id |-> p.rec.shape_id, points |-> pt])
                         ELSE [i \in DOMAIN shapes_dict |->
                                 IF i \in at
                                 THEN [shapes_dict[i] EXCEPT
                                         !.points = pt @@ shapes_dict[i].points]
                                 ELSE shapes_dict[i]]
                /\ UNCHANGED <<pc, si, buf, created_count, skipped, store, out,
                               accepted, submitted>>
           [] p.tag = "yield" /\ stage # "shapes" ->
                /\ idx' = idx + 1
                /\ yielded' = Append(yielded, p.rec)
                /\ LET r == record_body(stage, p.rec, snap)
                   IN  CASE r.tag = "skipped" ->
                              /\ skipped' = skipped + 1
                              /\ UNCHANGED <<buf, created_count, store, out,
                                             accepted, submitted>>
                         [] r.tag = "dropped" ->
                              /\ out' = Append(out, Msg(stage, "WARNING", 0))
                              /\ UNCHANGED <<buf, created_count, skipped, store,
                                             accepted, submitted>>
                         [] r.tag = "append" ->
                              /\ AppendAndFlush(r.obj)
                              /\ UNCHANGED skipped
                /\ UNCHANGED <<pc, si, shapes_dict>>
           [] OTHER ->
                /\ Raised(p.tag)
                /\ UNCHANGED <<idx, created_count, skipped, shapes_dict, yielded,
                               accepted, submitted>>
  /\ UNCHANGED <<feed, feed2, opts, run, bi, snap, prev_out, before, built>>

\* "if <entity>_to_create: bulk_create(...)" after the loop, and the report.
FinalFlush ==
  LET r == bulk_create_in_store(stage, store, buf)
      n == created_count + Len(buf)
  IN  IF buf = <<>>
      THEN /\ Leave(TRUE, <<Msg(stage, "created", created_count)>>, store)
           /\ UNCHANGED <<created_count, submitted>>
      ELSE /\ submitted' = Append(submitted, [objs |-> buf, ok |-> r.ok])
           /\ IF r.ok
              THEN /\ Leave(TRUE, <<Msg(stage, "created", n)>>,
                            [store EXCEPT ![stage] = r.table])
                   /\ created_count' = n
              ELSE /\ Raised("IntegrityError")
                   /\ UNCHANGED created_count

\* The parser is exhausted (an absent optional file yields nothing).
end_of_stream ==
  /\ UNCHANGED query_vars
  /\ UNCHANGED live_vars
  /\ pc = "rows"
  /\ \/ CurFile.exists /\ idx = Len(CurFile.rows)
     \/ ~CurFile.exists /\ stage \notin RequiredFiles
  /\ IF stage = "shapes"
     THEN /\ pc' = "build"
          /\ UNCHANGED <<si, buf, created_count, store, out, submitted>>
     ELSE FinalFlush
  /\ UNCHANGED <<feed, feed2, opts, run, idx, bi, skipped, snap, shapes_dict,
                 prev_out, before, yielded, built, accepted>>

\* Variant: a single point is taken for a line.
enough_points_one(coordinates) == Len(coordinates) >= 1

\* "if len(coordinates) >= 2" of fetch_shapes_from_gtfs' second loop.
enough_points(coordinates) == Len(coordinates) >= 2

\* One pass of fetch_shapes_from_gtfs' "for shape_id, points_dict in
\* shapes_dict.items()" loop.
build_shape ==
  /\ UNCHANGED query_vars
  /\ UNCHANGED live_vars
  /\ pc = "build" /\ bi < Len(shapes_dict)
  /\ bi' = bi + 1
  /\ LET item == shapes_dict[bi + 1]
         sorted_sequences == sorted(DOMAIN item.points)
         coordinates == [i \in DOMAIN sorted_sequences |->
                           item.points[sorted_sequences[i]]]
         shape == [shape_id |-> item.shape_id, geometry |-> coordinates,
                   sequence |-> 1]
     IN  IF enough_points(coordinates)
         THEN /\ built' = Append(built, shape)
              /\ AppendAndFlush(shape)
         ELSE UNCHANGED <<built, buf, created_count, store, out, accepted, submitted>>
  /\ UNCHANGED <<feed, feed2, opts, run, pc, si, idx, skipped, snap, shapes_dict,
                 prev_out, before, yielded>>

\* fetch_shapes_from_gtfs after its second loop.
shapes_done ==
  /\ UNCHANGED query_vars
  /\ UNCHANGED live_vars
  /\ pc = "build" /\ bi = Len(shapes_dict)
  /\ FinalFlush
  /\ UNCHANGED <<feed, feed2, opts, run, idx, bi, skipped, snap, shapes_dict,
                 prev_out, before, yielded, built, accepted>>

\* Command.handle after the last loader returned: the completion message,
\* written twice.
handle_return ==
  /\ UNCHANGED query_vars
  /\ UNCHANGED live_vars
  /\ pc = "return"
  /\ pc' = "exit"
  /\ out' = out \o <<Msg("handle", "completed", 0), Msg("handle", "completed", 0)>>
  /\ UNCHANGED <<feed, feed2, opts, run, si, idx, bi, buf, created_count, skipped,
                 snap, shapes_dict, store, prev_out, before, yielded, built,
                 accepted, submitted>>

Next ==
  \/ handle
  \/ loader_begin
  \/ file_not_found
  \/ read_row
  \/ end_of_stream
  \/ build_shape
  \/ shapes_done
  \/ handle_return

Spec == Init /\ [][Next]_vars

\* ------------------------------------------------------ live vehicle data
\* The placeholder handle() refuses as a key.
PlaceholderKey == "your_api_key_here"
ApiKeys == {None, PlaceholderKey, "KEY"}

\* "if api_key and api_key != 'your_api_key_here'".
usable_key(k) == k \notin {None, ""} /\ k # PlaceholderKey

\* The URLs of fetch_vehicles, in list order.
endpoints ==
  << "gtfsr/v2/gtfsr/Vehicles", "gtfsr/v2/gtfsr/VehiclePositions",
     "gtfsr/v2/Vehicles", "v2/gtfsr/Vehicles" >>

\* What one pass of the endpoint loop can meet: a decoded body, a
\* requests.exceptions.RequestException (connection, timeout, HTTP status),
\* or an exception of another class (response.json() on a body that is no
\* JSON raises a plain ValueError with requests before 2.27).
Outcomes == {"ok", "RequestException", "ValueError"}

\* dict.get(key, default); {} is the function with the empty domain.
EmptyDict == [k \in {} |-> None]
get(d, k, default) == IF k \in DOMAIN d THEN d[k] ELSE default

\* The entities the responses carry.  Coordinates are JSON text here.
RtEntity(vid, rid) ==
  [id |-> "e", vehicle |-> [vehicle |-> [id |-> vid],
                            position |-> [longitude |-> "1", latitude |-> "2"],
                            trip |-> [route_id |-> rid]]]
FlatEntity(vid) == [id |-> vid, position |-> [longitude |-> "2", latitude |-> "1"]]
FlatEntityOnRoute(vid, rid) ==
  [id |-> vid, position |-> [longitude |-> "2", latitude |-> "2"],
   trip |-> [route_id |-> rid]]
NoIdEntity == [position |-> [longitude |-> "1", latitude |-> "1"]]
BadPositionEntity == [id |-> "V3", position |-> [longitude |-> "x", latitude |-> "1"]]

\* The decoded bodies: a dict keyed "entity", "vehicles" or "data", or a list.
Payloads ==
  << [kind |-> "dict", body |-> [entity |-> <<RtEntity("V1", "R1"), FlatEntity("V2")>>]],
     [kind |-> "dict", body |-> [vehicles |-> <<FlatEntityOnRoute("V1", "R9")>>]],
     [kind |-> "dict", body |-> [data |-> <<NoIdEntity, BadPositionEntity>>]],
     [kind |-> "dict", body |-> [entity |-> <<>>]],
     [kind |-> "list", body |-> <<FlatEntity("V1")>>] >>

\* "data.get('entity', []) or data.get('vehicles', []) or data.get('data', []) or []"
entities_of(d) ==
  LET a == get(d.body, "entity", <<>>)
      b == get(d.body, "vehicles", <<>>)
      c == get(d.body, "data", <<>>)
  IN  IF a # <<>> THEN a ELSE IF b # <<>> THEN b ELSE c

\* The body of fetch_vehicles' "for entity in entities" loop on acc =
\* [routes, vehicles, created, updated, warnings].
fetch_vehicles_entity(acc, entity) ==
  LET vehicle_data == IF "vehicle" \in DOMAIN entity THEN entity.vehicle ELSE entity
      position == get(vehicle_data, "position", EmptyDict)
      trip == get(vehicle_data, "trip", EmptyDict)
      inner == get(get(vehicle_data, "vehicle", EmptyDict), "id", None)
      vehicle_id == IF inner \notin {None, ""} THEN inner ELSE get(vehicle_data, "id", None)
      lon == float(get(position, "longitude", "0"))
      lat == float(get(position, "latitude", "0"))
      route_id == get(trip, "route_id", None)
      known == {acc.routes[i].route_id : i \in DOMAIN acc.routes}
      routes2 == IF route_id \notin {None, ""} /\ route_id \notin known
                 THEN Append(acc.routes, [route_id |-> route_id, route_type |-> "3"])
                 ELSE acc.routes
      row == [vehicle_id |-> vehicle_id,
              route |-> IF route_id \in {None, ""} THEN None ELSE route_id,
              location |-> <<lon.v, lat.v>>]
      at == {i \in DOMAIN acc.vehicles : acc.vehicles[i].vehicle_id = vehicle_id}
  IN  IF vehicle_id \in {None, ""} THEN acc
      ELSE IF lon.tag # "ok" \/ lat.tag # "ok"
      THEN [acc EXCEPT !.warnings = @ + 1]
      ELSE [acc EXCEPT
              !.routes = routes2,
              !.vehicles = IF at = {} THEN Append(@, row)
                           ELSE [i \in DOMAIN @ |-> IF i \in at THEN row ELSE @[i]],
              !.created = IF at = {} THEN @ + 1 ELSE @,
              !.updated = IF at = {} THEN @ ELSE @ + 1]

RECURSIVE fetch_vehicles_entities(_, _)
fetch_vehicles_entities(acc, es) ==
  IF es = <<>> THEN acc
  ELSE fetch_vehicles_entities(fetch_vehicles_entity(acc, Head(es)), Tail(es))

\* What the GTFS loaders keep.
gtfs_vars == <<idx, bi, buf, created_count, skipped, snap, shapes_dict, yielded,
               built, accepted, submitted>>

\* handle() goes on after a loader returned.
AfterLoader ==
  IF si < Len(Stages(opts))
  THEN pc' = "begin" /\ si' = si + 1
  ELSE pc' = "return" /\ si' = si

\* "if options['vehicles']:" of handle, and the entry of fetch_vehicles.
vehicles_begin ==
  /\ UNCHANGED query_vars
  /\ pc = "begin" /\ stage = "vehicles"
  /\ IF usable_key(api_key)
     THEN /\ called' = Append(called, "vehicles")
          /\ out' = Append(out, Msg("vehicles", "fetching", 0))
          /\ pc' = "request" /\ si' = si
     ELSE /\ out' = Append(out, Msg("vehicles", "WARNING skipping", 0))
          /\ AfterLoader
          /\ UNCHANGED called
  /\ ei' = 0 /\ requested' = <<>> /\ data' = NoData
  /\ UNCHANGED <<feed, feed2, opts, run, store, prev_out, before, api_key, vehicles>>
  /\ UNCHANGED gtfs_vars

\* Variant: a request exception ends fetch_vehicles instead of the pass.
on_outcome_give_up(o) ==
  CASE o = "ok" -> "break"
    [] OTHER -> "raise"

\* The try of the endpoint loop: break after a decoded body, continue on
\* "except requests.exceptions.RequestException", anything else propagates.
on_outcome(o) ==
  CASE o = "ok" -> "break"
    [] o = "RequestException" -> "continue"
    [] OTHER -> "raise"

\* One pass of "for url in endpoints".
request_endpoint ==
  /\ UNCHANGED query_vars
  /\ pc = "request" /\ ei < Len(endpoints)
  /\ ei' = ei + 1
  /\ \E o \in Outcomes :
       /\ requested' = Append(requested, [url |-> endpoints[ei + 1], outcome |-> o])
       /\ CASE on_outcome(o) = "break" ->
                 /\ \E i \in DOMAIN Payloads : data' = Payloads[i]
                 /\ out' = Append(out, Msg("vehicles", "fetched", ei + 1))
                 /\ pc' = "entities"
            [] on_outcome(o) = "continue" ->
                 /\ out' = Append(out, Msg("vehicles", "WARNING endpoint", ei + 1))
                 /\ pc' = "request"
                 /\ UNCHANGED data
            [] OTHER ->
                 /\ out' = Append(out, Msg("handle", "ERROR", 0))
                 /\ pc' = "exit"
                 /\ UNCHANGED data
  /\ UNCHANGED <<feed, feed2, opts, run, si, store, prev_out, before, api_key,
                 called, vehicles>>
  /\ UNCHANGED gtfs_vars

\* "if data is None" after the loop ran out of endpoints.
endpoints_exhausted ==
  /\ UNCHANGED query_vars
  /\ pc = "request" /\ ei = Len(endpoints)
  /\ out' = Append(out, Msg("vehicles", "WARNING all failed", 0))
  /\ AfterLoader
  /\ UNCHANGED <<feed, feed2, opts, run, store, prev_out, before, api_key,
                 called, ei, requested, data, vehicles>>
  /\ UNCHANGED gtfs_vars

\* fetch_vehicles from "entities = (" to its end; data.get on a list raises
\* AttributeError, which only handle() catches.
process_entities ==
  /\ UNCHANGED query_vars
  /\ pc = "entities"
  /\ IF data.kind = "list"
     THEN /\ out' = Append(out, Msg("handle", "ERROR", 0))
          /\ pc' = "exit" /\ si' = si
          /\ UNCHANGED <<store, vehicles>>
     ELSE LET r == fetch_vehicles_entities(
                     [routes |-> store.routes, vehicles |-> vehicles,
                      created |-> 0, updated |-> 0, warnings |-> 0],
                     entities_of(data))
          IN  /\ store' = [store EXCEPT !.routes = r.routes]
              /\ vehicles' = r.vehicles
              /\ out' = out \o [i \in 1..r.warnings |-> Msg("vehicles", "WARNING entity", 0)]
                            \o <<Msg("vehicles", "created", r.created),
                                 Msg("vehicles", "updated", r.updated)>>
              /\ AfterLoader
  /\ UNCHANGED <<feed, feed2, opts, run, prev_out, before, api_key, called, ei,
                 requested, data>>
  /\ UNCHANGED gtfs_vars

\* Feeds for the runs with flags: complete, without routes.txt, with a short
\* agency row (the flush fails), with a short stops row (the parser raises),
\* and no feed folder.
LiveFeeds ==
  { BaseFeed,
    [BaseFeed EXCEPT !.routes = AbsentFile],
    [BaseFeed EXCEPT !.agency = File(<<[agency_id |-> "A2", agency_name |-> None]>>)],
    [BaseFeed EXCEPT !.stops =
       File(<<[stop_id |-> "S1", stop_name |-> "a", stop_lat |-> "1", stop_lon |-> "2"],
              [stop_id |-> "S2", stop_name |-> "a", stop_lat |-> "1", stop_lon |-> None]>>)],
    [BaseFeed EXCEPT !.folder = FALSE] }

InitLive ==
  /\ feed \in LiveFeeds
  /\ feed2 \in {feed, RevisedFeed}
  /\ opts \in [{"stops", "routes", "vehicles"} -> BOOLEAN]
  /\ api_key \in ApiKeys
  /\ run = 0 /\ pc = "idle" /\ si = 0 /\ idx = 0 /\ bi = 0
  /\ buf = <<>> /\ created_count = 0 /\ skipped = 0
  /\ snap = EmptySnap /\ shapes_dict = <<>>
  /\ store = EmptyStore /\ before = EmptyStore
  /\ out = <<>> /\ prev_out = <<>> /\ yielded = <<>> /\ built = <<>>
  /\ accepted = <<>> /\ submitted = <<>>
  /\ called = <<>> /\ ei = 0 /\ requested = <<>>
  /\ data = NoData /\ vehicles = <<>>
  /\ request = NoRequest /\ response = NoResponse

NextLive ==
  \/ handle
  \/ loader_begin
  \/ file_not_found
  \/ read_row
  \/ end_of_stream
  \/ build_shape
  \/ shapes_done
  \/ handle_return
  \/ vehicles_begin
  \/ request_endpoint
  \/ endpoints_exhausted
  \/ process_entities

SpecLive == InitLive /\ [][NextLive]_vars

\* --------------------------------------------------------- spatial queries
\* The stop table the views read: MaxStops stops at most, at these
\* <<lon, lat>> points (rows come from ingestion, the REST API or the admin).
StopPoints == {<<0, 0>>, <<1, 0>>, <<0, 1>>, <<2, 2>>}
StopIdOf == <<"S1", "S2", "S3", "S4", "S5">>
StopTables ==
  UNION {{[i \in 1..n |-> [stop_id |-> StopIdOf[i], stop_name |-> "a", location |-> l[i]]] :
            l \in [1..n -> StopPoints]} : n \in 0..MaxStops}

\* The text of a query parameter; None when the parameter is not given.
CoordParams == {None, "", "x", "0", "1", "2"}
KParams == {None, "x", "-1", "0", "1", "2", "5"}

\* Distance('location', point), up to a monotone scale: the database orders
\* by the geodesic distance, which on whole degrees between 0 and 2 grows
\* with the squared planar distance; equal values stand for points whose
\* order is the database's choice.
distance(location, point) ==
  (location[1] - point[1]) * (location[1] - point[1])
    + (location[2] - point[2]) * (location[2] - point[2])

\* The row orders .order_by('distance') can return.
order_by_distance(stops, point) ==
  LET n == Len(stops)
      orders == {p \in [1..n -> 1..n] :
                   /\ \A i, j \in 1..n : i # j => p[i] # p[j]
                   /\ \A i, j \in 1..n :
                        i < j => distance(stops[p[i]].location, point)
                                   <= distance(stops[p[j]].location, point)}
  IN  {[i \in 1..n |-> stops[p[i]]] : p \in orders}

\* Variant: the slice keeps one row more.
head_slice_one_more(rows, k) ==
  SubSeq(rows, 1, IF k + 1 < Len(rows) THEN k + 1 ELSE Len(rows))

\* queryset[:k] for k >= 0.
head_slice(rows, k) == SubSeq(rows, 1, IF k < Len(rows) THEN k ELSE Len(rows))

\* StopSerializer(many=True).data with the annotated distance.
serialize(rows, point) ==
  [i \in DOMAIN rows |->
     [stop_id |-> rows[i].stop_id, coordinates |-> rows[i].location,
      distance |-> distance(rows[i].location, point)]]

BadRequest(msg) == [NoResponse EXCEPT !.status = 400, !.error = msg]

\* The responses StopViewSet.k_nearest can give to these query parameters.
k_nearest_responses(stops, lat, lon, k) ==
  IF lat \in {None, ""} \/ lon \in {None, ""}
  THEN {BadRequest("lat and lon required")}
  ELSE LET la == float(lat)
           lo == float(lon)
           kk == IF k = None THEN [tag |-> "ok", v |-> 5] ELSE int(k)
       IN  IF la.tag # "ok" THEN {BadRequest(la.tag)}
           ELSE IF lo.tag # "ok" THEN {BadRequest(lo.tag)}
           ELSE IF kk.tag # "ok" THEN {BadRequest(kk.tag)}
           ELSE IF kk.v < 0 THEN {BadRequest("Negative indexing is not supported.")}
           ELSE {[NoResponse EXCEPT
                    !.status = 200,
                    !.count = Len(head_slice(rows, kk.v)),
                    !.center = <<lo.v, la.v>>, !.k = kk.v,
                    !.results = serialize(head_slice(rows, kk.v), <<lo.v, la.v>>)] :
                   rows \in order_by_distance(stops, <<lo.v, la.v>>)}

\* GET /stops/k_nearest/?lat=..&lon=..&k=..  The view only reads the table,
\* so a behaviour serves one request: a later one would meet the same table.
k_nearest ==
  /\ request = NoRequest
  /\ \E lat \in CoordParams, lon \in CoordParams, k \in KParams :
       /\ request' = [NoRequest EXCEPT
                         !.view = "k_nearest", !.lat = lat, !.lon = lon, !.k = k]
       /\ response' \in k_nearest_responses(store.stops, lat, lon, k)
  /\ UNCHANGED <<feed, feed2, opts, run, pc, si, store, out, prev_out, before>>
  /\ UNCHANGED gtfs_vars
  /\ UNCHANGED live_vars

\* The text of distance_km; None when the parameter is not given.
DistanceParams == {None, "x", "0", "1"}

\* location__distance_lte=(point, D(km=distance_km)): the geodesic distance
\* is at most distance_km; a degree is about 111 km on the points modelled.
\* The lookup also gives the Point, built without one, the SRID of the field.
distance_lte(location, point, km) ==
  distance(location, point) * 111 * 111 <= km * km

\* Stop.objects.filter(location__distance_lte=(point, D(km=distance_km))).
filter_distance_lte(stops, point, km) ==
  LET F[i \in 0..Len(stops)] ==
        IF i = 0 THEN <<>>
        ELSE IF distance_lte(stops[i].location, point, km) THEN Append(F[i - 1], stops[i])
        ELSE F[i - 1]
  IN  F[Len(stops)]

\* A view let an exception through: Django answers 500.
ServerError(exc) == [NoResponse EXCEPT !.status = 500, !.error = exc]

\* The responses StopViewSet.nearby can give to these query parameters.
\* float(distance_km) comes before the test of lat and lon and outside the
\* try.
nearby_responses(stops, lat, lon, distance_km) ==
  LET dk == IF distance_km = None THEN [tag |-> "ok", v |-> 1] ELSE float(distance_km)
  IN  IF dk.tag # "ok" THEN {ServerError(dk.tag)}
      ELSE IF lat \in {None, ""} \/ lon \in {None, ""}
      THEN {BadRequest("lat and lon required")}
      ELSE LET la == float(lat)
               lo == float(lon)
           IN  IF la.tag # "ok" THEN {BadRequest(la.tag)}
               ELSE IF lo.tag # "ok" THEN {BadRequest(lo.tag)}
               ELSE {[NoResponse EXCEPT
                        !.status = 200, !.count = Len(rows),
                        !.center = <<lo.v, la.v>>, !.radius_km = dk.v,
                        !.results = serialize(rows, <<lo.v, la.v>>)] :
                       rows \in order_by_distance(
                                  filter_distance_lte(stops, <<lo.v, la.v>>, dk.v),
                                  <<lo.v, la.v>>)}

\* GET /stops/nearby/?lat=..&lon=..&distance_km=..
nearby ==
  /\ request = NoRequest
  /\ \E lat \in CoordParams, lon \in CoordParams, distance_km \in DistanceParams :
       /\ request' = [NoRequest EXCEPT !.view = "nearby", !.lat = lat, !.lon = lon,
                                       !.distance_km = distance_km]
       /\ response' \in nearby_responses(store.stops, lat, lon, distance_km)
  /\ UNCHANGED <<feed, feed2, opts, run, pc, si, store, out, prev_out, before>>
  /\ UNCHANGED gtfs_vars
  /\ UNCHANGED live_vars

\* The text of a bound of the box; None when the parameter is not given.
BoundParams == {None, "x", "0", "1", "2"}

\* Polygon([...]) of in_bounds: the ring through the four corners, as the
\* pair of its opposite corners <<lon, lat>>.
Polygon(min_lon, min_lat, max_lon, max_lat) ==
  [sw |-> <<min_lon, min_lat>>, ne |-> <<max_lon, max_lat>>]

Min(a, b) == IF a < b THEN a ELSE b
Max(a, b) == IF a < b THEN b ELSE a

\* location__within (ST_Within): the point lies in the interior of the
\* polygon; a point on the ring is on the boundary, not within.  A ring
\* given clockwise bounds the same area, and a ring that encloses no area
\* has no interior.
within(location, bounds) ==
  /\ Min(bounds.sw[1], bounds.ne[1]) < location[1]
  /\ location[1] < Max(bounds.sw[1], bounds.ne[1])
  /\ Min(bounds.sw[2], bounds.ne[2]) < location[2]
  /\ location[2] < Max(bounds.sw[2], bounds.ne[2])

\* Stop.Meta.ordering = ['stop_name']: the row orders a queryset without
\* order_by can return.  Rows of equal name come in the database's order,
\* and the stops of StopTables all bear the same name.
order_by_stop_name(stops) ==
  LET n == Len(stops)
      orders == {p \in [1..n -> 1..n] : \A i, j \in 1..n : i # j => p[i] # p[j]}
  IN  {[i \in 1..n |-> stops[p[i]]] : p \in orders}

\* Stop.objects.filter(location__within=bounds).
filter_within(stops, bounds) ==
  LET F[i \in 0..Len(stops)] ==
        IF i = 0 THEN <<>>
        ELSE IF within(stops[i].location, bounds) THEN Append(F[i - 1], stops[i])
        ELSE F[i - 1]
  IN  F[Len(stops)]

\* StopSerializer(many=True).data.
serialize_stops(rows) ==
  [i \in DOMAIN rows |->
     [stop_id |-> rows[i].stop_id, coordinates |-> rows[i].location]]

\* The responses StopViewSet.in_bounds can give to these query parameters.
in_bounds_responses(stops, min_lat, max_lat, min_lon, max_lon) ==
  IF \E c \in {min_lat, max_lat, min_lon, max_lon} : c \in {None, ""}
  THEN {BadRequest("All bounds parameters required")}
  ELSE LET a == float(min_lat)
           b == float(max_lat)
           c == float(min_lon)
           d == float(max_lon)
           bounds == Polygon(c.v, a.v, d.v, b.v)
       IN  IF a.tag # "ok" THEN {BadRequest(a.tag)}
           ELSE IF b.tag # "ok" THEN {BadRequest(b.tag)}
           ELSE IF c.tag # "ok" THEN {BadRequest(c.tag)}
           ELSE IF d.tag # "ok" THEN {BadRequest(d.tag)}
           ELSE {[NoResponse EXCEPT
                    !.status = 200, !.count = Len(rows),
                    !.bounds = [min_lat |-> a.v, max_lat |-> b.v,
                                min_lon |-> c.v, max_lon |-> d.v],
                    !.results = serialize_stops(rows)] :
                   rows \in order_by_stop_name(filter_within(stops, bounds))}

\* GET /stops/in_bounds/?min_lat=..&max_lat=..&min_lon=..&max_lon=..
in_bounds ==
  /\ request = NoRequest
  /\ \E min_lat \in BoundParams, max_lat \in BoundParams,
        min_lon \in BoundParams, max_lon \in BoundParams :
       /\ request' = [NoRequest EXCEPT
                         !.view = "in_bounds", !.min_lat = min_lat, !.max_lat = max_lat,
                         !.min_lon = min_lon, !.max_lon = max_lon]
       /\ response' \in in_bounds_responses(store.stops, min_lat, max_lat,
                                             min_lon, max_lon)
  /\ UNCHANGED <<feed, feed2, opts, run, pc, si, store, out, prev_out, before>>
  /\ UNCHANGED gtfs_vars
  /\ UNCHANGED live_vars

\* router.register(...) of urls.py: the prefixes, and with the
\* @action(detail=False) methods of the registered viewsets the list routes
\* the API serves under them.
prefixes == {"stops", "routes", "spatial-queries", "shapes"}
router ==
  {<<"stops", a>> : a \in {"nearby", "in_bounds", "k_nearest", "on_route"}}
    \cup {<<"shapes", a>> : a \in {"trips", "trip_details", "nearby", "in_bounds"}}

\* The Vehicle table the API runs beside: empty, or four vehicles at one
\* point and a fifth a degree away, all without a route.
VehicleAt(vid, location) == [vehicle_id |-> vid, route |-> None, location |-> location]
VehicleTables ==
  {<<>>,
   <<VehicleAt("V1", <<1, 1>>), VehicleAt("V2", <<1, 1>>), VehicleAt("V3", <<1, 1>>),
     VehicleAt("V4", <<1, 1>>), VehicleAt("V5", <<2, 2>>)>>}

\* GET /api/<prefix>/congestion/?min_vehicles=3&distance_km=0.5 under a
\* registered prefix or under vehicles.  When the router has no such list
\* route the path matches no pattern of urlpatterns, or only the detail
\* route of the prefix with pk "congestion", which finds no object: 404.
not_found ==
  /\ request = NoRequest
  /\ \E prefix \in prefixes \cup {"vehicles"} :
       /\ <<prefix, "congestion">> \notin router
       /\ request' = [NoRequest EXCEPT !.view = "congestion",
                                       !.data = [prefix |-> prefix]]
       /\ response' = [NoResponse EXCEPT !.status = 404, !.error = "Not Found"]
  /\ UNCHANGED <<feed, feed2, opts, run, pc, si, store, out, prev_out, before>>
  /\ UNCHANGED gtfs_vars
  /\ UNCHANGED live_vars

\* The dicts that reach SpatialSearchSerializer.validate: query_type is
\* one of the choices, an optional FloatField is absent or a float, the
\* optional JSONField polygon is absent, an empty list or a ring.  The
\* fields of the other query types are left out.
FloatValues == {0, 1}
PolygonValues == {<<>>, <<<<0, 0>>, <<1, 0>>, <<1, 1>>, <<0, 0>>>>}
Dicts(keys, values) == UNION {[present -> values] : present \in SUBSET keys}
BboxFields == {"min_lat", "max_lat", "min_lon", "max_lon"}
SearchData ==
  {[query_type |-> "radius"] @@ d : d \in Dicts({"latitude", "longitude"}, FloatValues)}
    \cup {[query_type |-> "bbox"] @@ d : d \in Dicts(BboxFields, FloatValues)}
    \cup {[query_type |-> "polygon"] @@ d : d \in Dicts({"polygon"}, PolygonValues)}

\* "not data.get(f)" for a float field: absent (None) or 0.0.
not_float(d, f) == f \notin DOMAIN d \/ d[f] = 0

\* "not data.get('polygon')": absent (None) or empty.
not_json(d, f) == f \notin DOMAIN d \/ d[f] = <<>>

\* SpatialSearchSerializer.validate: the message of the ValidationError it
\* raises, "" when it returns the data.
validate(d) ==
  CASE d.query_type = "radius" ->
         IF not_float(d, "latitude") \/ not_float(d, "longitude")
         THEN "Latitude and longitude required" ELSE ""
    [] d.query_type = "bbox" ->
         IF ~(\A f \in BboxFields : f \in DOMAIN d)
         THEN "All bbox coordinates required" ELSE ""
    [] d.query_type = "polygon" ->
         IF not_json(d, "polygon") THEN "Polygon coordinates required" ELSE ""
    [] OTHER -> ""

\* SpatialSearchSerializer(data=...).is_valid(raise_exception=True) from the
\* object-level validation on: the data is accepted (200 here) or the
\* ValidationError becomes a 400.
is_valid ==
  /\ request = NoRequest
  /\ \E d \in SearchData :
       /\ request' = [NoRequest EXCEPT !.view = "SpatialSearchSerializer", !.data = d]
       /\ response' = IF validate(d) = "" THEN [NoResponse EXCEPT !.status = 200]
                      ELSE BadRequest(validate(d))
  /\ UNCHANGED <<feed, feed2, opts, run, pc, si, store, out, prev_out, before>>
  /\ UNCHANGED gtfs_vars
  /\ UNCHANGED live_vars

InitQuery ==
  /\ feed = BaseFeed /\ feed2 = BaseFeed /\ opts = NoFlags
  /\ run = 0 /\ pc = "idle" /\ si = 0 /\ idx = 0 /\ bi = 0
  /\ buf = <<>> /\ created_count = 0 /\ skipped = 0
  /\ snap = EmptySnap /\ shapes_dict = <<>>
  /\ \E t \in StopTables : store = [EmptyStore EXCEPT !.stops = t]
  /\ before = EmptyStore
  /\ out = <<>> /\ prev_out = <<>> /\ yielded = <<>> /\ built = <<>>
  /\ accepted = <<>> /\ submitted = <<>>
  /\ api_key = None /\ called = <<>> /\ ei = 0 /\ requested = <<>>
  /\ data = NoData /\ vehicles \in VehicleTables
  /\ request = NoRequest /\ response = NoResponse

NextQuery ==
  \/ nearby
  \/ k_nearest
  \/ in_bounds
  \/ not_found
  \/ is_valid

SpecQuery == InitQuery /\ [][NextQuery]_vars

\* ------------------------------------------- REST writes beside ingestion
\* RouteViewSet and StopViewSet are ModelViewSets: DELETE /api/routes/<pk>/
\* and DELETE /api/stops/<pk>/ delete the row with instance.delete().

\* Collector.collect: the row id of e, the Trips that reference it through
\* the CASCADE foreign key and the Vehicles whose route is to be set to
\* NULL (SET_NULL), as read when the request collects them.  StopTime has
\* no dependent model: its rows are not collected but deleted by a query
\* on their trip and stop when the collector deletes.
collect(e, id, st, vs) ==
  LET routes == IF e = "routes" THEN {id} ELSE {}
  IN  [routes |-> routes,
       stops |-> IF e = "stops" THEN {id} ELSE {},
       trips |-> {st.trips[i].trip_id : i \in
                    {i \in DOMAIN st.trips : st.trips[i].route \in routes}},
       vehicles |-> {vs[i].vehicle_id : i \in
                       {i \in DOMAIN vs : vs[i].route \in routes}}]

\* Collector.delete: one transaction that deletes the StopTimes of the
\* collected trips and stops, nulls the collected vehicles' route and
\* deletes the collected rows.  A Trip stored after the collection that
\* references a deleted route fails the foreign key check at commit:
\* IntegrityError, and nothing is deleted.
Collector_delete(c, st, vs) ==
  LET st2 == [st EXCEPT !.routes = SelectSeq(@, LAMBDA r : r.route_id \notin c.routes),
                        !.stops = SelectSeq(@, LAMBDA r : r.stop_id \notin c.stops),
                        !.trips = SelectSeq(@, LAMBDA r : r.trip_id \notin c.trips),
                        !.stop_times = SelectSeq(@, LAMBDA r : r.trip \notin c.trips
                                                                 /\ r.stop \notin c.stops)]
      vs2 == [i \in DOMAIN vs |->
                IF vs[i].vehicle_id \in c.vehicles
                THEN [vs[i] EXCEPT !.route = None] ELSE vs[i]]
      broken == \/ \E e \in {"trips", "stop_times"} :
                     \E i \in DOMAIN st2[e] : Dangling(e, st2[e][i], st2)
                \/ \E i \in DOMAIN vs2 :
                     vs2[i].route # None /\ vs2[i].route \notin IdsOf("routes", st2.routes)
  IN  IF broken THEN [ok |-> FALSE, store |-> st, vehicles |-> vs]
      ELSE [ok |-> TRUE, store |-> st2, vehicles |-> vs2]

\* The rows a DELETE request can name.
DeletablePks == [routes |-> {"R1", "R2"}, stops |-> {"S1", "S2"}]

\* DestroyModelMixin.destroy up to the collection: get_object (404 when the
\* row is not stored), then instance.delete() collects what goes with it.
\* A behaviour follows one DELETE request, sent at any point of the runs.
destroy ==
  /\ request = NoRequest
  /\ \E e \in {"routes", "stops"} : \E id \in DeletablePks[e] :
       IF id \in IdsOf(e, store[e])
       THEN /\ request' = [NoRequest EXCEPT
                              !.view = "destroy",
                              !.data = [model |-> e, pk |-> id,
                                        collected |-> collect(e, id, store, vehicles)]]
            /\ response' = NoResponse
       ELSE /\ request' = [NoRequest EXCEPT
                              !.view = "destroy",
                              !.data = [model |-> e, pk |-> id,
                                        collected |-> collect("none", id, store, vehicles)]]
            /\ response' = [NoResponse EXCEPT !.status = 404, !.error = "Not Found"]
  /\ UNCHANGED <<feed, feed2, opts, run, pc, si, store, out, prev_out, before>>
  /\ UNCHANGED gtfs_vars
  /\ UNCHANGED live_vars

\* The rest of destroy: the collector's transaction, then 204 No Content;
\* the IntegrityError of a failed commit is not handled (500).
destroy_delete ==
  /\ request.view = "destroy" /\ response = NoResponse
  /\ LET r == Collector_delete(request.data.collected, store, vehicles)
     IN  /\ store' = r.store
         /\ vehicles' = r.vehicles
         /\ response' = [NoResponse EXCEPT
                            !.status = IF r.ok THEN 204 ELSE 500,
                            !.error = IF r.ok THEN "" ELSE "IntegrityError"]
  /\ UNCHANGED <<feed, feed2, opts, run, pc, si, out, prev_out, before, request>>
  /\ UNCHANGED gtfs_vars
  /\ UNCHANGED <<api_key, called, ei, requested, data>>

\* The database after "--vehicles" met a vehicle on route R1: fetch_vehicles
\* stored the route and the vehicle.  Two default runs follow, of a feed and
\* of its later edition, while the API takes DELETE requests.
InitRest ==
  /\ feed \in {BaseFeed, [BaseFeed EXCEPT !.stops = AbsentFile]}
  /\ feed2 = RevisedFeed /\ opts = NoFlags
  /\ run = 0 /\ pc = "idle" /\ si = 0 /\ idx = 0 /\ bi = 0
  /\ buf = <<>> /\ created_count = 0 /\ skipped = 0
  /\ snap = EmptySnap /\ shapes_dict = <<>>
  /\ store = [EmptyStore EXCEPT !.routes = <<[route_id |-> "R1", route_type |-> "3"]>>]
  /\ before = EmptyStore
  /\ out = <<>> /\ prev_out = <<>> /\ yielded = <<>> /\ built = <<>>
  /\ accepted = <<>> /\ submitted = <<>>
  /\ api_key = None /\ called = <<>> /\ ei = 0 /\ requested = <<>>
  /\ data = NoData
  /\ vehicles = <<[vehicle_id |-> "V1", route |-> "R1", location |-> <<2, 2>>]>>
  /\ request = NoRequest /\ response = NoResponse

NextRest ==
  \/ handle
  \/ loader_begin
  \/ file_not_found
  \/ read_row
  \/ end_of_stream
  \/ build_shape
  \/ shapes_done
  \/ handle_return
  \/ destroy
  \/ destroy_delete

SpecRest == InitRest /\ [][NextRest]_vars

\* ------------------------------------------------------------ properties
Range(f) == {f[i] : i \in DOMAIN f}

\* The loader of e has just returned to handle.
JustLeft(e) ==
  \/ pc = "begin" /\ si > 1 /\ Stages(opts)[si - 1] = e
  \/ pc = "return" /\ Stages(opts)[si] = e

\* The loader of e is in its loop over the parser.
Reading(e) == pc = "rows" /\ stage = e

RouteIds(st) == {st.routes[i].route_id : i \in DOMAIN st.routes}
TripIds(st) == {st.trips[i].trip_id : i \in DOMAIN st.trips}
StopIds(st) == {st.stops[i].stop_id : i \in DOMAIN st.stops}

IsReport(m) == m.stage \in Entities /\ m.kind \in {"created", "ERROR"}
IsError(m) == m.kind = "ERROR"

\* The loaders that have reported (success or error) in o, in order.
ReportStages(o) ==
  LET r == SelectSeq(o, IsReport) IN [i \in DOMAIN r |-> r[i].stage]

Completed(o) == o # <<>> /\ o[Len(o)] = Msg("handle", "completed", 0)

\* C1: in fetch_trips_from_gtfs a trip record whose route_id is not among the
\* Routes stored when the loader started is never put in the list nor stored,
\* no Trip has a null or unknown route, and skipped counts exactly those
\* records, one each.
C1_UnknownRouteTripSkipped ==
  (Reading("trips") \/ JustLeft("trips")) =>
    LET rows == SubSeq(CurFeed.trips.rows, 1, idx)
        known == RouteIds(store)
        unknown == {i \in DOMAIN rows : rows[i].route_id \notin known}
        resolved == {i \in DOMAIN rows \ unknown : int(rows[i].direction_id).tag = "ok"}
    IN  /\ skipped = Cardinality(unknown)
        /\ \A i \in DOMAIN buf : buf[i].route \in known
        /\ \A i \in DOMAIN store.trips : store.trips[i].route \in known
        /\ Reading("trips") => Len(buf) + created_count = Cardinality(resolved)
        /\ Len(buf) + created_count <= Cardinality(resolved)

C1_Witness ==
  JustLeft("trips") /\ skipped >= 1 /\ created_count >= 1 /\ Len(store.trips) >= 1

\* C2: in fetch_stop_times_from_gtfs a record whose trip_id or stop_id is not
\* among the stored Trips / Stops is counted as skipped once and never
\* listed; in every state every stored StopTime references a stored Trip and
\* a stored Stop.
C2_StopTimeReferencesResolved ==
  /\ \A i \in DOMAIN store.stop_times :
        /\ store.stop_times[i].trip \in TripIds(store)
        /\ store.stop_times[i].stop \in StopIds(store)
  /\ (Reading("stop_times") \/ JustLeft("stop_times")) =>
        LET unresolved == {i \in DOMAIN yielded :
                             \/ yielded[i].trip_id \notin TripIds(store)
                             \/ yielded[i].stop_id \notin StopIds(store)}
        IN  /\ skipped = Cardinality(unresolved)
            /\ \A i \in DOMAIN buf :
                  buf[i].trip \in TripIds(store) /\ buf[i].stop \in StopIds(store)
            /\ Len(buf) + created_count <= Len(yielded) - Cardinality(unresolved)

C2_Witness ==
  /\ JustLeft("stop_times") /\ run = 2
  /\ skipped >= 1 /\ Len(store.stop_times) >= 2
  /\ \E i \in DOMAIN yielded : yielded[i].stop_id \notin StopIds(store)

\* The run that just ended read the same feed as the run before it.
RerunOfSameFeed == pc = "exit" /\ (run > 2 \/ (run = 2 /\ feed2 = feed))

\* C3: a second default run over the unchanged feed leaves every table with
\* the same rows as the first run left it, and reports no error the first
\* run did not report.
C3_RerunIdempotent ==
  (RerunOfSameFeed /\ load_all(opts)) =>
    /\ store = before
    /\ \A e \in Entities : Len(store[e]) = Len(before[e])
    /\ SelectSeq(out, IsError) = SelectSeq(prev_out, IsError)
    /\ Completed(out) = Completed(prev_out)

C3_Witness ==
  /\ RerunOfSameFeed /\ run = 2 /\ load_all(opts)
  /\ \A e \in Entities : Len(store[e]) >= 1
  /\ Completed(out)

\* C4: no step of a run changes or removes a stored row; a step only adds
\* rows whose unique key was not stored before.
C4_ExistingRowsUntouched ==
  [][\A e \in Entities :
       /\ Len(store'[e]) >= Len(store[e])
       /\ \A i \in DOMAIN store[e] : store'[e][i] = store[e][i]
       /\ \A j \in (Len(store[e]) + 1)..Len(store'[e]) :
            UniqueKey(e, store'[e][j]) \notin Keys(e, SubSeq(store'[e], 1, j - 1))]_vars

\* A second run whose feed carries stop S1 with other fields has ended: S1
\* is stored as the first run wrote it and the new stop S2 was added.
C4_Witness ==
  /\ pc = "exit" /\ run = 2 /\ load_all(opts) /\ feed2 # feed
  /\ \E i \in DOMAIN feed2.stops.rows, k \in DOMAIN store.stops :
        LET p == parse_stops(feed2.stops.rows[i])
        IN  /\ p.tag = "yield"
            /\ p.rec.stop_id = store.stops[k].stop_id
            /\ p.rec.stop_name # store.stops[k].stop_name
  /\ Len(store.stops) > Len(before.stops)

\* The order the specification gives for a run without flags.
DependencyOrder ==
  <<"agency", "calendar", "stops", "routes", "trips", "stop_times", "shapes">>

C5_StageOrder ==
  (load_all(opts) /\ pc \in {"begin", "rows", "build", "return"}) =>
    /\ pc # "return" => stage = DependencyOrder[si]
    /\ ReportStages(out) = SubSeq(DependencyOrder, 1, IF pc = "return" THEN si ELSE si - 1)
    /\ pc = "begin" => buf = <<>>

\* C5: in a run without flags the loaders run in the order agencies,
\* calendars, stops, routes, trips, stop_times, shapes; when one starts, all
\* before it have reported and left nothing buffered, and only the running
\* loader writes, and only to its own table.
C5_StagesInOrderOneAtATime ==
  /\ []C5_StageOrder
  /\ [][\A e \in Entities :
          store'[e] # store[e] => (stage = e /\ pc \in {"rows", "build"})]_vars

C5_Witness ==
  /\ pc = "return" /\ load_all(opts)
  /\ ReportStages(out) = DependencyOrder
  /\ \A e \in Entities : Len(store[e]) >= 1

\* C6: when the file of stops, routes, trips or stop_times is absent, that
\* loader stores nothing and reports an error, and the run still calls every
\* later loader and completes.
C6_MissingRequiredFile ==
  \A e \in {"stops", "routes", "trips", "stop_times"} :
    (run >= 1 /\ CurFeed.folder /\ ~CurFeed[e].exists /\ e \in Range(Stages(opts))) =>
      /\ store[e] = before[e]
      /\ JustLeft(e) => out[Len(out)] = Msg(e, "ERROR", 0)
      /\ pc = "exit" =>
           /\ ReportStages(out) = Stages(opts)
           /\ Msg(e, "ERROR", 0) \in Range(out)
           /\ Completed(out)

C6_Witness ==
  /\ pc = "exit" /\ run = 1 /\ load_all(opts)
  /\ ~feed.routes.exists
  /\ Msg("routes", "ERROR", 0) \in Range(out)
  /\ Len(store.stops) >= 1 /\ Len(store.shapes) >= 1

\* C7: when agency.txt, calendar.txt or shapes.txt is absent, its parser
\* yields nothing, the loader inserts nothing and reports 0 created without
\* an error, and the run goes on to completion.
C7_MissingOptionalFile ==
  \A e \in {"agency", "calendar", "shapes"} :
    (run >= 1 /\ CurFeed.folder /\ load_all(opts) /\ ~CurFeed[e].exists) =>
      /\ store[e] = before[e]
      /\ (stage = e /\ pc \in {"rows", "build"}) => (yielded = <<>> /\ buf = <<>>)
      /\ JustLeft(e) =>
           /\ yielded = <<>> /\ created_count = 0
           /\ out[Len(out)] = Msg(e, "created", 0)
      /\ pc = "exit" =>
           /\ ReportStages(out) = Stages(opts)
           /\ Msg(e, "created", 0) \in Range(out)
           /\ \A i \in DOMAIN out : out[i].stage = e => out[i].kind = "created"
           /\ Completed(out)

C7_Witness ==
  /\ pc = "exit" /\ run = 1 /\ load_all(opts)
  /\ ~feed.agency.exists
  /\ Msg("agency", "created", 0) \in Range(out)
  /\ Len(store.stops) >= 1

\* Rows of stops.txt whose coordinates are numbers, neither of them zero.
GoodStopRow(row) ==
  /\ float(row.stop_lat).tag = "ok" /\ float(row.stop_lon).tag = "ok"
  /\ float(row.stop_lat).v # 0 /\ float(row.stop_lon).v # 0

\* C8: parse_stops yields no stop with a zero latitude or longitude, none is
\* stored, and every other row of the file with parseable coordinates is
\* yielded.
C8_ZeroCoordinateStopsOnly ==
  /\ \A i \in DOMAIN store.stops :
        store.stops[i].location[1] # 0 /\ store.stops[i].location[2] # 0
  /\ (Reading("stops") \/ JustLeft("stops")) =>
        \A i \in DOMAIN yielded : yielded[i].stop_lat # 0 /\ yielded[i].stop_lon # 0
  /\ (JustLeft("stops") /\ CurFeed.stops.exists) =>
        \A i \in DOMAIN CurFeed.stops.rows :
           LET row == CurFeed.stops.rows[i]
           IN  GoodStopRow(row) =>
                 \E j \in DOMAIN yielded :
                    /\ yielded[j].stop_id = row.stop_id
                    /\ yielded[j].stop_name = row.stop_name
                    /\ yielded[j].stop_lat = float(row.stop_lat).v
                    /\ yielded[j].stop_lon = float(row.stop_lon).v

\* Whether the required numeric fields of a row of e parse.
NumericFieldsParse(e, row) ==
  CASE e = "stops" ->
         float(row.stop_lat).tag = "ok" /\ float(row.stop_lon).tag = "ok"
    [] e = "stop_times" -> int(row.stop_sequence).tag = "ok"
    [] e = "shapes" ->
         /\ float(row.shape_pt_lat).tag = "ok" /\ float(row.shape_pt_lon).tag = "ok"
         /\ int(row.shape_pt_sequence).tag = "ok"

\* C9: in stops.txt, stop_times.txt and shapes.txt a row whose required
\* numeric field does not parse (text that is no number, empty, or missing
\* from a short row) yields no record, and the rows after it are still read.
C9_BadNumericRowSkipped ==
  \A e \in {"stops", "stop_times", "shapes"} :
    (JustLeft(e) /\ CurFeed[e].exists) =>
      LET rows == CurFeed[e].rows
          parsed == {i \in DOMAIN rows : NumericFieldsParse(e, rows[i])}
      IN  /\ idx = Len(rows)
          /\ Len(yielded) <= Cardinality(parsed)

\* The points of shape h among the yielded records.
PointsOf(h) == {i \in DOMAIN yielded : yielded[i].shape_id = h}
SequencesOf(h) == {yielded[i].shape_pt_sequence : i \in PointsOf(h)}

\* The coordinates of the last record of shape h with sequence number s.
LastPoint(h, s) ==
  LET last == CHOOSE i \in PointsOf(h) :
                /\ yielded[i].shape_pt_sequence = s
                /\ \A j \in PointsOf(h) : yielded[j].shape_pt_sequence = s => j <= i
  IN  <<yielded[last].shape_pt_lon, yielded[last].shape_pt_lat>>

\* The k-th smallest sequence number of shape h.
NthSequence(h, k) ==
  CHOOSE s \in SequencesOf(h) : Cardinality({t \in SequencesOf(h) : t < s}) = k - 1

\* C10: every shape id with two or more distinct sequence numbers in the
\* stream gets one polyline, with one point per distinct sequence number, in
\* ascending sequence order, each the last point given for that number.
C10_PolylinePerShape ==
  JustLeft("shapes") =>
    \A h \in {yielded[i].shape_id : i \in DOMAIN yielded} :
      Cardinality(SequencesOf(h)) >= 2 =>
        /\ Cardinality({b \in DOMAIN built : built[b].shape_id = h}) = 1
        /\ \A b \in DOMAIN built :
              built[b].shape_id = h =>
                /\ Len(built[b].geometry) = Cardinality(SequencesOf(h))
                /\ \A k \in DOMAIN built[b].geometry :
                      built[b].geometry[k] = LastPoint(h, NthSequence(h, k))

\* The shape ids of the stored Shape rows.
ShapeIds(st) == {st.shapes[i].shape_id : i \in DOMAIN st.shapes}

\* fetch_shapes_from_gtfs has returned after its first loop consumed the
\* whole stream and its second loop visited every shape id.
ShapesStageCompleted ==
  /\ JustLeft("shapes")
  /\ idx = Len(CurFeed.shapes.rows) /\ bi = Len(shapes_dict)

\* Items of shapes_dict with fewer than two distinct sequence numbers.
FewPoints(i) == Cardinality(DOMAIN shapes_dict[i].points) < 2

C11_AfterStage ==
  ShapesStageCompleted =>
    /\ \A i \in DOMAIN shapes_dict :
          IF FewPoints(i)
          THEN /\ \A b \in DOMAIN built : built[b].shape_id # shapes_dict[i].shape_id
               /\ \A j \in (Len(before.shapes) + 1)..Len(store.shapes) :
                     store.shapes[j].shape_id # shapes_dict[i].shape_id
          ELSE shapes_dict[i].shape_id \in ShapeIds(store)
    /\ \A m \in DOMAIN out : out[m].stage = "shapes" => out[m].kind \in {"created", "processed"}
    /\ out[Len(out)] = Msg("shapes", "created", created_count)

\* C11: a shape id with fewer than two distinct sequence numbers gets no
\* Shape object and no row, its pass through the second loop writes nothing
\* and logs nothing, and once the loop is over every other shape id of the
\* stream is stored and the loader has reported without warning or error.
C11_FewPointShapeDropped ==
  /\ []C11_AfterStage
  /\ [][(pc = "build" /\ bi < Len(shapes_dict) /\ FewPoints(bi + 1)) =>
          /\ pc' = "build" /\ bi' = bi + 1
          /\ UNCHANGED <<store, buf, built, out, created_count>>]_vars

\* A stream with a one-point shape (or one whose rows share a sequence
\* number) and a two-point shape: only the latter is stored.
C11_Witness ==
  /\ ShapesStageCompleted /\ run = 1
  /\ \E i, j \in DOMAIN shapes_dict :
        /\ FewPoints(i) /\ ~FewPoints(j)
        /\ shapes_dict[i].shape_id \notin ShapeIds(store)
        /\ shapes_dict[j].shape_id \in ShapeIds(store)

C12_AtMostOne ==
  \A i, j \in DOMAIN store.shapes :
    store.shapes[i].shape_id = store.shapes[j].shape_id => i = j

C12_OneAfterStage ==
  ShapesStageCompleted =>
    \A i \in DOMAIN shapes_dict :
      ~FewPoints(i) =>
        Cardinality({j \in DOMAIN store.shapes :
                       store.shapes[j].shape_id = shapes_dict[i].shape_id}) = 1

\* C12: in every state the Shape table has at most one row per shape id;
\* when a shapes stage ends, every shape id it collected with two or more
\* distinct sequence numbers has exactly one row, and no later step of any
\* run removes a shape id from the table.
C12_OneShapeRowPerId ==
  /\ [](C12_AtMostOne /\ C12_OneAfterStage)
  /\ [][ShapeIds(store) \subseteq ShapeIds(store')]_vars

\* The second run read a feed that gives H1 another geometry and adds H2:
\* H1 keeps its one row, H2 got one.
C12_Witness ==
  /\ ShapesStageCompleted /\ run = 2 /\ feed2 # feed
  /\ Len(before.shapes) >= 1 /\ Len(store.shapes) > Len(before.shapes)
  /\ \E b \in DOMAIN built, j \in DOMAIN before.shapes :
        /\ built[b].shape_id = before.shapes[j].shape_id
        /\ built[b].geometry # before.shapes[j].geometry

\* The objects of a sequence of bulk_create calls, in call order.
RECURSIVE ObjsOf(_)
ObjsOf(calls) ==
  IF calls = <<>> THEN <<>> ELSE Head(calls).objs \o ObjsOf(Tail(calls))

InLoader == pc \in {"rows", "build"}
LoaderReturned == (pc = "begin" /\ si > 1) \/ pc = "return"
NoFlushFailed == \A i \in DOMAIN submitted : submitted[i].ok

\* C13: while no bulk_create of the loader has failed, every call made
\* inside the loop carries exactly BatchSize objects, the list holds fewer
\* than BatchSize objects between records, and the objects of the calls
\* followed by the list are the accepted objects in stream order; when the
\* loader has returned, the calls carry every accepted object exactly once,
\* the last call being the remainder.
C13_BatchedSubmission ==
  NoFlushFailed =>
    /\ InLoader =>
          /\ Len(buf) < BatchSize
          /\ ObjsOf(submitted) \o buf = accepted
          /\ \A i \in DOMAIN submitted : Len(submitted[i].objs) = BatchSize
    /\ LoaderReturned =>
          /\ ObjsOf(submitted) = accepted
          /\ \A i \in DOMAIN submitted :
                /\ Len(submitted[i].objs) \in 1..BatchSize
                /\ i < Len(submitted) => Len(submitted[i].objs) = BatchSize

\* The record the parser yields next makes the constructor of Trip or
\* StopTime raise: its references resolve and direction_id / pickup_type is
\* not the text of an integer.
ConstructRaises ==
  /\ pc = "rows" /\ stage \in {"trips", "stop_times"}
  /\ CurFile.exists /\ idx < Len(CurFile.rows)
  /\ LET row == CurFile.rows[idx + 1]
     IN  IF stage = "trips"
         THEN /\ row.route_id \in snap.routes
              /\ row.direction_id \notin DOMAIN IntLit
         ELSE /\ row.stop_sequence \in DOMAIN IntLit
              /\ row.trip_id \in snap.trips /\ row.stop_id \in snap.stops
              /\ row.pickup_type \notin DOMAIN IntLit

\* C14: the pass of the loop over a record whose constructor raises logs one
\* warning and nothing else: the list, the store and the counters are as
\* before, and the loader is still in its loop, at the next row; the run
\* of such a feed ends with the completion message.
C14_ConstructFailureDropsRecord ==
  /\ [][ConstructRaises =>
          /\ out' = Append(out, Msg(stage, "WARNING", 0))
          /\ pc' = "rows" /\ si' = si /\ idx' = idx + 1
          /\ UNCHANGED <<buf, store, created_count, skipped, accepted, submitted>>]_vars
  /\ []((pc = "exit" /\ CurFeed.folder) => Completed(out))

\* A trips file whose second record has a bad direction_id: the first record
\* was buffered before it, the third after it, and both are stored.
C14_Witness ==
  /\ JustLeft("trips") /\ run = 1 /\ Len(feed.trips.rows) = 3
  /\ feed.trips.rows[2].route_id \in RouteIds(store)
  /\ feed.trips.rows[2].direction_id \notin DOMAIN IntLit
  /\ Msg("trips", "WARNING", 0) \in Range(out)
  /\ Len(accepted) = 2 /\ Len(store.trips) = 2

\* C15: once a bulk_create of a loader has failed, the loader reads no
\* further row, visits no further shape, appends and submits nothing more
\* and returns at once; the loaders after it still report.
C15_FlushFailureStopsEntity ==
  /\ [][(InLoader /\ ~NoFlushFailed) =>
          /\ pc' \in {"begin", "return"}
          /\ UNCHANGED <<idx, bi, accepted, submitted>>]_vars
  /\ []((pc = "exit" /\ CurFeed.folder) => ReportStages(out) = Stages(opts))

IsPrefix(a, b) == Len(a) <= Len(b) /\ a = SubSeq(b, 1, Len(a))

\* The loaders a run with these flags and this key is to call, in order.
ExpectedCalls ==
  IF ~opts.stops /\ ~opts.routes /\ ~opts.vehicles
  THEN <<"agency", "calendar", "stops", "routes", "trips", "stop_times", "shapes">>
  ELSE (IF opts.stops THEN <<"stops">> ELSE <<>>)
         \o (IF opts.routes THEN <<"routes">> ELSE <<>>)
         \o (IF opts.vehicles /\ api_key = "KEY" THEN <<"vehicles">> ELSE <<>>)

\* C16: without a flag handle calls the seven GTFS loaders; with a flag it
\* calls the stops loader iff --stops, then the routes loader iff --routes,
\* then fetch_vehicles only under --vehicles, and none of the agency,
\* calendar, trip, stop_time and shape loaders.
C16_FlagsSelectLoaders ==
  /\ IsPrefix(called, ExpectedCalls)
  /\ pc = "return" => called = ExpectedCalls
  /\ (opts.stops \/ opts.routes \/ opts.vehicles) =>
        /\ Range(called) \subseteq {"stops", "routes", "vehicles"}
        /\ \A e \in {"agency", "calendar", "trips", "stop_times", "shapes"} :
              store[e] = <<>>

C16_Witness ==
  /\ pc = "return" /\ opts.stops /\ ~opts.routes /\ opts.vehicles
  /\ called = <<"stops", "vehicles">>
  /\ Len(store.stops) >= 1

\* C17: a run without subset flags and with a usable API key calls
\* fetch_vehicles besides the GTFS loaders.
C17_ApiKeyAlsoFetchesLive ==
  (pc = "exit" /\ CurFeed.folder /\ usable_key(api_key)
     /\ ~opts.stops /\ ~opts.routes /\ ~opts.vehicles) =>
    "vehicles" \in Range(called)

AllEndpointsFailed ==
  /\ Len(requested) = Len(endpoints)
  /\ \A i \in DOMAIN requested : requested[i].outcome = "RequestException"

C18_Requests ==
  /\ \A i \in DOMAIN requested :
        /\ requested[i].url = endpoints[i]
        /\ i < Len(requested) => requested[i].outcome = "RequestException"
  /\ (pc = "exit" /\ requested # <<>>
        /\ requested[Len(requested)].outcome = "RequestException") =>
        AllEndpointsFailed
  /\ (pc \in {"return", "exit"} /\ AllEndpointsFailed) =>
        /\ out[Len(out)] \in {Msg("vehicles", "WARNING all failed", 0),
                              Msg("handle", "completed", 0)}
        /\ Msg("handle", "ERROR", 0) \notin Range(out)
        /\ pc = "exit" => Completed(out)

\* C18: the i-th request of fetch_vehicles goes to the i-th URL of the
\* list; a request is issued only after every request before it failed with
\* a request exception, and a request exception is followed by the next URL
\* as long as one is left; when all have failed, the function logs a
\* warning and returns, having written nothing, and the run ends with the
\* completion message.
C18_EndpointFallback ==
  /\ []C18_Requests
  /\ [][pc = "request" =>
          /\ store' = store /\ vehicles' = vehicles
          /\ Len(requested') <= Len(requested) + 1]_vars

C18_Witness ==
  /\ pc = "exit" /\ AllEndpointsFailed /\ Completed(out)
  /\ Msg("vehicles", "WARNING all failed", 0) \in Range(out)

\* fetch_vehicles raised an exception that is no request exception.
VehiclesRaised ==
  /\ "vehicles" \in Range(called)
  /\ \/ requested # <<>> /\ requested[Len(requested)].outcome = "ValueError"
     \/ data.kind = "list"

\* C19: every run ends in handle's normal exit.  A run whose feed folder
\* exists and whose fetch_vehicles did not raise ends with the completion
\* message written twice, whatever the GTFS loaders reported: a missing
\* required file or a failed flush shows as an error line of the loader and
\* leaves the end of the output as in a run without errors.
C19_HandleNeverRaises ==
  /\ pc \in {"idle", "begin", "rows", "build", "request", "entities", "return", "exit"}
  /\ pc = "exit" =>
        \/ ~CurFeed.folder
        \/ VehiclesRaised
        \/ /\ Len(out) >= 2
           /\ SubSeq(out, Len(out) - 1, Len(out)) =
                <<Msg("handle", "completed", 0), Msg("handle", "completed", 0)>>
           /\ Msg("handle", "ERROR", 0) \notin Range(out)

\* A run over a feed whose agency flush fails has ended: the agency loader
\* reported the error, the later loaders stored their rows, and the output
\* ends with the completion message.
C19_Witness ==
  /\ pc = "exit" /\ run = 1 /\ ~opts.stops /\ ~opts.routes /\ ~opts.vehicles
  /\ Msg("agency", "ERROR", 0) \in Range(out)
  /\ store.agency = <<>> /\ Len(store.shapes) >= 1
  /\ Completed(out)

\* The request has a number for lat and for lon, and k absent or an integer
\* that is not negative.
ValidKNearest ==
  /\ request.view = "k_nearest"
  /\ request.lat \in DOMAIN FloatLit /\ request.lon \in DOMAIN FloatLit
  /\ request.k = None \/ (request.k \in DOMAIN IntLit /\ IntLit[request.k] >= 0)

\* C20: for numeric lat and lon and k >= 0 (5 when absent) k_nearest answers
\* 200 with min(k, number of stops) distinct stops in ascending distance
\* from (lon, lat), no stop left out being nearer than one returned, and
\* count equal to the number of results.
C20_KNearest ==
  ValidKNearest =>
    LET kk == IF request.k = None THEN 5 ELSE IntLit[request.k]
        n == Len(store.stops)
        point == <<FloatLit[request.lon], FloatLit[request.lat]>>
        res == response.results
        got == {res[i].stop_id : i \in DOMAIN res}
    IN  /\ response.status = 200
        /\ Len(res) = IF kk < n THEN kk ELSE n
        /\ response.count = Len(res)
        /\ Cardinality(got) = Len(res)
        /\ \A i \in DOMAIN res :
              \E s \in DOMAIN store.stops :
                 /\ store.stops[s].stop_id = res[i].stop_id
                 /\ res[i].distance = distance(store.stops[s].location, point)
        /\ \A i, j \in DOMAIN res : i < j => res[i].distance <= res[j].distance
        /\ \A s \in DOMAIN store.stops :
              store.stops[s].stop_id \notin got =>
                \A i \in DOMAIN res :
                   res[i].distance <= distance(store.stops[s].location, point)

\* Three stops at three different distances, k = 2: the two nearer ones are
\* returned, nearest first, and the farthest is left out.
C20_Witness ==
  /\ ValidKNearest /\ request.k = "2" /\ Len(store.stops) = 3
  /\ response.status = 200 /\ response.count = 2
  /\ response.results[1].distance < response.results[2].distance
  /\ \E s \in DOMAIN store.stops :
        distance(store.stops[s].location, response.center) > response.results[2].distance

\* The request gives the four bounds as numbers, the lesser first.
ValidInBounds ==
  /\ request.view = "in_bounds"
  /\ \A c \in {request.min_lat, request.max_lat, request.min_lon, request.max_lon} :
        c \in DOMAIN FloatLit
  /\ FloatLit[request.min_lat] <= FloatLit[request.max_lat]
  /\ FloatLit[request.min_lon] <= FloatLit[request.max_lon]

\* The stops of the table in the closed rectangle of the request.
StopsInRectangle ==
  {store.stops[s].stop_id : s \in
     {s \in DOMAIN store.stops :
        /\ FloatLit[request.min_lon] <= store.stops[s].location[1]
        /\ store.stops[s].location[1] <= FloatLit[request.max_lon]
        /\ FloatLit[request.min_lat] <= store.stops[s].location[2]
        /\ store.stops[s].location[2] <= FloatLit[request.max_lat]}}

\* C21: in_bounds returns exactly the stops whose point lies in the
\* rectangle [min_lon, max_lon] x [min_lat, max_lat], boundary included: a
\* stop on an edge or corner is returned and no stop outside is.
C21_InBoundsInclusive ==
  ValidInBounds =>
    /\ response.status = 200
    /\ {response.results[i].stop_id : i \in DOMAIN response.results} = StopsInRectangle

\* The rows of stops.txt the invocations so far could read.
StopRowsRead(onlyCurrent) ==
  (IF run >= 1 /\ feed.stops # AbsentFile /\ ~(onlyCurrent /\ run > 1)
   THEN Range(feed.stops.rows) ELSE {})
    \cup (IF run >= 2 /\ feed2.stops # AbsentFile THEN Range(feed2.stops.rows) ELSE {})

\* The stored stop s carries the coordinates of the row r of stops.txt.
LocationOf(s, r) ==
  /\ r.stop_id = s.stop_id
  /\ r.stop_lon \in DOMAIN FloatLit /\ r.stop_lat \in DOMAIN FloatLit
  /\ s.location[1] = FloatLit[r.stop_lon]
  /\ s.location[2] = FloatLit[r.stop_lat]

\* C22: every persisted Stop has the location of a row of stops.txt with
\* its stop_id, x being that row's stop_lon and y its stop_lat with the
\* values unchanged; a stop persisted by the current invocation has them
\* from the feed this invocation reads.
C22_StopLocationLonLat ==
  /\ \A i \in DOMAIN store.stops :
        \E r \in StopRowsRead(FALSE) : LocationOf(store.stops[i], r)
  /\ \A i \in DOMAIN store.stops :
        store.stops[i] \notin Range(before.stops) =>
          \E r \in StopRowsRead(TRUE) : LocationOf(store.stops[i], r)

\* A run has stored the stop of the row with stop_lat 1 and stop_lon 2, the
\* only row of that id in the feed, at x = 2, y = 1.
C22_Witness ==
  /\ pc = "exit" /\ run = 1
  /\ \E i \in DOMAIN store.stops :
        /\ store.stops[i].stop_id = "S1" /\ store.stops[i].location = <<2, 1>>
  /\ \A j \in DOMAIN feed.stops.rows :
        feed.stops.rows[j].stop_id = "S1" =>
          feed.stops.rows[j].stop_lat = "1" /\ feed.stops.rows[j].stop_lon = "2"

\* C23: a row whose enumerated field is outside its set of values produces
\* no persisted row: no Route has a route_type outside "0".."4", no Trip a
\* direction_id outside {0, 1}, no StopTime a pickup_type outside 0..3.
C23_BadEnumDropped ==
  /\ \A i \in DOMAIN store.routes :
        store.routes[i].route_type \in {"0", "1", "2", "3", "4"}
  /\ \A i \in DOMAIN store.trips : store.trips[i].direction_id \in {0, 1}
  /\ \A i \in DOMAIN store.stop_times : store.stop_times[i].pickup_type \in 0..3

\* C24: the query service offers congestion clustering: a request for the
\* congestion clusters with min_vehicles = 3 and distance_km = 0.5 is
\* answered 200, and with four vehicles at one point and a fifth far away
\* the answer is exactly one cluster, of those four.
C24_CongestionClustering ==
  request.view = "congestion" =>
    /\ response.status = 200
    /\ Len(vehicles) = 5 =>
          /\ Len(response.results) = 1
          /\ response.results[1] = {"V1", "V2", "V3", "V4"}

\* The ids a stage resolves its references against, in the store.
Persisted == [routes |-> RouteIds(store), trips |-> TripIds(store), stops |-> StopIds(store)]

\* While a dependent loader reads, its cache holds the ids in the store and
\* skipped counts the records read whose reference is not in the store.
CacheIsStore ==
  /\ Reading("trips") =>
        /\ snap.routes = Persisted.routes
        /\ skipped = Cardinality({i \in DOMAIN yielded :
                                    yielded[i].route_id \notin Persisted.routes})
  /\ Reading("stop_times") =>
        /\ snap.trips = Persisted.trips /\ snap.stops = Persisted.stops
        /\ skipped = Cardinality({i \in DOMAIN yielded :
                                    \/ yielded[i].trip_id \notin Persisted.trips
                                    \/ yielded[i].stop_id \notin Persisted.stops})

\* C25: the ids a dependent loader resolves against are cached once, when
\* the loader starts and the earlier loaders have stored their rows: while
\* trips are read the cache holds every stored route, while stop_times are
\* read every stored trip and stop, those of this run included, so only
\* records whose reference is not in the store count as skipped; the cache
\* does not change while the loader reads.
C25_SnapshotAtStageStart ==
  /\ []CacheIsStore
  /\ [][pc = "rows" /\ pc' = "rows" => snap' = snap]_vars

\* A first run on an empty store has ended with a StopTime stored and no
\* stop_time skipped: its trip, its stop and the trip's route were all
\* stored by this run.
C25_Witness ==
  /\ pc = "exit" /\ run = 1 /\ before = EmptyStore
  /\ Len(store.stop_times) >= 1 /\ Len(store.trips) >= 1
  /\ skipped = 0 /\ Len(yielded) >= 1

\* The loader of e has just returned after reporting its created-count.
ReportedCreated(e) ==
  JustLeft(e) /\ out # <<>> /\ out[Len(out)] = Msg(e, "created", created_count)

\* The warnings the loader of e has written in this invocation.
Warnings(e) == Len(SelectSeq(out, LAMBDA m : m = Msg(e, "WARNING", 0)))

\* C26: the created-count a loader reports is the number of rows its stage
\* has newly persisted (a record ignored on a uniqueness conflict is not
\* counted), and for trips and stop_times every record the parser yielded
\* is counted once: as created, as skipped, or as dropped with a warning.
C26_CreatedCountIsNewRows ==
  \A e \in Entities \ {"shapes"} :
     ReportedCreated(e) =>
       /\ created_count = Len(store[e]) - Len(before[e])
       /\ e \in {"trips", "stop_times"} =>
             Len(yielded) = created_count + skipped + Warnings(e)

\* Every Trip references a stored Route, every StopTime a stored Trip and a
\* stored Stop, and every Vehicle no route or a stored one.
ReferentialIntegrity ==
  /\ \A e \in {"trips", "stop_times"} :
        \A i \in DOMAIN store[e] : ~Dangling(e, store[e][i], store)
  /\ \A i \in DOMAIN vehicles :
        vehicles[i].route = None \/ vehicles[i].route \in RouteIds(store)

\* A step that deletes a Route or a Stop deletes with it exactly the Trips
\* of the route and the StopTimes of those trips or of the stop, and keeps
\* every Vehicle, those of the route with a null route.
DeleteCascades ==
  \A e \in {"routes", "stops"} :
     \A id \in IdsOf(e, store[e]) \ IdsOf(e, store'[e]) :
        LET c == collect(e, id, store, vehicles)
            stop_times == {st \in Range(store.stop_times) :
                             st.trip \in c.trips \/ (e = "stops" /\ st.stop = id)}
        IN  /\ IdsOf(e, store'[e]) = IdsOf(e, store[e]) \ {id}
            /\ TripIds(store') = TripIds(store) \ c.trips
            /\ Range(store'.stop_times) = Range(store.stop_times) \ stop_times
            /\ e = "routes" => store'.stops = store.stops
            /\ e = "stops" => store'.routes = store.routes
            /\ Len(vehicles') = Len(vehicles)
            /\ \A i \in DOMAIN vehicles :
                  vehicles'[i] = IF vehicles[i].vehicle_id \in c.vehicles
                                 THEN [vehicles[i] EXCEPT !.route = None]
                                 ELSE vehicles[i]

\* C27: with DELETE requests of the API interleaving two ingestion runs,
\* referential integrity holds in every state: deleting a Route or a Stop
\* removes its Trips and StopTimes and only nulls Vehicle.route, and after
\* a row a loader has cached is deleted no Trip or StopTime referencing it
\* becomes stored.
C27_IntegrityUnderDeletes ==
  /\ []ReferentialIntegrity
  /\ [][DeleteCascades]_vars

\* Route R1 was deleted after the trips loader cached it: the loader's
\* flush of a trip on R1 failed, no trip on R1 is stored, and the vehicle
\* that was on R1 is kept without a route.
C27_Witness ==
  /\ JustLeft("trips") /\ "R1" \in snap.routes /\ "R1" \notin RouteIds(store)
  /\ \E i \in DOMAIN submitted :
        ~submitted[i].ok /\ \E j \in DOMAIN submitted[i].objs :
                               submitted[i].objs[j].route = "R1"
  /\ Len(vehicles) = 1 /\ vehicles[1].route = None

\* The vehicle id an element of a response carries (nested under "vehicle"
\* in the GTFS-realtime layout), None when it has none.
ElementId(entity) ==
  LET vehicle_data == IF "vehicle" \in DOMAIN entity THEN entity.vehicle ELSE entity
      inner == get(get(vehicle_data, "vehicle", EmptyDict), "id", None)
  IN  IF inner \notin {None, ""} THEN inner ELSE get(vehicle_data, "id", None)

\* The element gives its position in numbers.
ElementHasPosition(entity) ==
  LET vehicle_data == IF "vehicle" \in DOMAIN entity THEN entity.vehicle ELSE entity
      position == get(vehicle_data, "position", EmptyDict)
  IN  /\ float(get(position, "longitude", "0")).tag = "ok"
      /\ float(get(position, "latitude", "0")).tag = "ok"

\* The elements of the decoded response: those of the top-level array, or
\* of the first non-empty of the keys entity, vehicles, data.
ElementsOf(d) == IF d.kind = "list" THEN d.body ELSE entities_of(d)

\* fetch_vehicles has decoded a response and is past its entity loop.
ResponseProcessed ==
  /\ data # NoData /\ pc \in {"begin", "return", "exit"}
  /\ "vehicles" \in Range(called)

\* C28: fetch_vehicles handles a dict (the first non-empty of entity,
\* vehicles, data) and a top-level array alike: once the response is
\* processed, every element that has a vehicle id (and a numeric position)
\* has exactly one Vehicle of that id, and an element without an id none.
C28_ResponseFormats ==
  ResponseProcessed =>
    LET es == ElementsOf(data)
    IN  /\ \A i \in DOMAIN es :
              (ElementId(es[i]) \notin {None, ""} /\ ElementHasPosition(es[i])) =>
                 Cardinality({j \in DOMAIN vehicles :
                                vehicles[j].vehicle_id = ElementId(es[i])}) = 1
        /\ \A j \in DOMAIN vehicles : vehicles[j].vehicle_id \notin {None, ""}

\* The parameters of the request's query type are supplied: latitude and
\* longitude for radius, the four bounds for bbox, a ring for polygon.
ParametersSupplied ==
  LET d == request.data
  IN  CASE d.query_type = "radius" -> {"latitude", "longitude"} \subseteq DOMAIN d
        [] d.query_type = "bbox" -> BboxFields \subseteq DOMAIN d
        [] d.query_type = "polygon" -> "polygon" \in DOMAIN d /\ d.polygon # <<>>

\* C29: SpatialSearchSerializer.validate accepts the data exactly when the
\* parameters of its query type are supplied, the value 0 included:
\* latitude and longitude for radius, all four bounds for bbox, the
\* polygon for polygon.
C29_ValidateByQueryType ==
  request.view = "SpatialSearchSerializer" =>
    (response.status = 200 <=> ParametersSupplied)

\* The parameter is missing or empty.
Missing(c) == c \in {None, ""}

\* The request lacks a required parameter or gives text that is no number
\* for a numeric one.
Malformed ==
  CASE request.view = "nearby" ->
         \/ \E c \in {request.lat, request.lon} : Missing(c) \/ c \notin DOMAIN FloatLit
         \/ request.distance_km # None /\ request.distance_km \notin DOMAIN FloatLit
    [] request.view = "k_nearest" ->
         \/ \E c \in {request.lat, request.lon} : Missing(c) \/ c \notin DOMAIN FloatLit
         \/ request.k # None /\ request.k \notin DOMAIN IntLit
    [] request.view = "in_bounds" ->
         \E c \in {request.min_lat, request.max_lat, request.min_lon, request.max_lon} :
            Missing(c) \/ c \notin DOMAIN FloatLit
    [] OTHER -> FALSE

\* C30: nearby, in_bounds and k_nearest answer a request that lacks lat,
\* lon or a bound, or whose lat, lon, bound, distance_km or k is no number,
\* with 400, never let an exception through, and when they answer 200 the
\* count is the number of results.
C30_MalformedInputIs400 ==
  request.view \in {"nearby", "in_bounds", "k_nearest"} =>
    /\ response.status \in {200, 400}
    /\ Malformed => response.status = 400
    /\ response.status = 200 => response.count = Len(response.results)

====
